---- MODULE Spec2Model ----
(***************************************************************************)
(* Model of the Twitch EventSub webhook of stream-bot (src/eventsub.js):   *)
(* the JSON body parser of the route, verifyTwitchSignature, the           *)
(* message-type dispatch, the event handlers that emit to Socket.IO, and   *)
(* registerSubscription; of the subscription set-up of src/user-auth.js;   *)
(* of the token refresh of src/auth.js and src/user-auth.js, with its      *)
(* renewal timer; and of the SQLite token store of src/db.js.              *)
(*                                                                         *)
(* JavaScript values are modelled as follows.                              *)
(*   - a string is a TLA+ string; `undefined` in a string slot (a missing  *)
(*     header, a missing property, an unset environment variable) is the   *)
(*     value Undefined;                                                    *)
(*   - an object is a function from its own property names to values (a    *)
(*     missing property is not in the DOMAIN);                             *)
(*   - an object-or-undefined value is a sequence of length 0 or 1;        *)
(*   - HMAC-SHA256 is an injective function into strings (no collisions).  *)
(***************************************************************************)
EXTENDS Integers, Sequences, FiniteSets, Bags, TLC

VARIABLES
    env,            \* process.env: the variables the module reads
    io,             \* _io, the Socket.IO instance (Undefined while null)
    subscriptions,  \* the EventSub subscriptions the remote API holds (a bag:
                    \* the remote API does not merge equal subscriptions)
    req,            \* the delivery being handled (headers, raw body)
    res,            \* the HTTP response of that delivery
    emitted,        \* the _io.emit calls made while handling that delivery
    verdict,        \* what verifyTwitchSignature returned for that delivery
    branch,         \* which part of the route answered that delivery
    calls,          \* the asynchronous operation each caller has in flight
    store,          \* the token database (db.js): key -> stored row
    database,       \* the module variables of the promise-based db.js and the
                    \* connections it opened
    page,           \* the alerts page: its queue, its flag and its container
    monitor         \* the stream monitor of main.js: global.isChannelLive,
                    \* the polls made and the notifications sent

vars ==
    <<env, io, subscriptions, req, res, emitted, verdict, branch, calls, store,
      database, page, monitor>>

\* the state outside the bot's server modules
elsewhere == <<database, page, monitor>>

\* the state of the webhook route
webhookVars == <<req, res, emitted, verdict, branch>>

-----------------------------------------------------------------------------
(* Bounds of the model *)

MaxSubscriptions == 1

\* subscriptions the remote API holds while operations are followed step by step
MaxRegistered == 2

\* calls of saveToken, getToken and loadAllTokens made on the token table in
\* one behaviour
MaxStoreCalls == 3

\* socket events an alerts page receives in one behaviour
MaxEvents == 3

\* calls of checkStreamStatus the interval makes in one behaviour
MaxPolls == 3

-----------------------------------------------------------------------------
(* JavaScript helpers *)

Undefined == "<undefined>"

\* !!s for a string-or-undefined value
Truthy(s) == s # Undefined /\ s # ""

\* a || b for string-or-undefined values
OrElse(a, b) == IF Truthy(a) THEN a ELSE b

\* o[k] for a property that holds a string when present
Prop(o, k) == IF k \in DOMAIN o THEN o[k] ELSE Undefined

\* o[k] for a property that holds an object when present
ObjProp(o, k) == IF k \in DOMAIN o THEN <<o[k]>> ELSE <<>>

\* string concatenation of a string-or-undefined value: '' + undefined
ToStr(s) == IF s = Undefined THEN "undefined" ELSE s

Digit(d) == CASE d = 0 -> "0" [] d = 1 -> "1" [] d = 2 -> "2" [] d = 3 -> "3"
              [] d = 4 -> "4" [] d = 5 -> "5" [] d = 6 -> "6" [] d = 7 -> "7"
              [] d = 8 -> "8" [] d = 9 -> "9"

RECURSIVE NumToString(_)
\* Number.prototype.toString for a natural number
NumToString(n) == IF n < 10 THEN Digit(n)
                  ELSE NumToString(n \div 10) \o Digit(n % 10)

-----------------------------------------------------------------------------
(* JSON *)

\* The property names of the bodies, in the order the deliveries list them
\* (V8 keeps insertion order, so JSON.stringify of a parsed body lists the
\* properties in the order of the text it was parsed from).
KeyOrder == << "challenge", "subscription", "id", "type", "version", "status",
               "condition", "broadcaster_user_id", "to_broadcaster_user_id",
               "moderator_user_id", "event", "user_login", "user_name",
               "from_broadcaster_user_login", "from_broadcaster_user_name",
               "followed_at", "tier", "is_anonymous", "is_gift",
               "cumulative_months", "viewers", "bits" >>

ObjectKeys == {"subscription", "condition", "event"}
NumberKeys == {"cumulative_months", "viewers", "bits"}
BooleanKeys == {"is_anonymous", "is_gift"}

RECURSIVE StringifyFrom(_, _, _)
\* the members of object o from position i of KeyOrder on; first tells
\* whether no member has been written yet (no comma)
StringifyFrom(o, i, first) ==
    IF i > Len(KeyOrder) THEN ""
    ELSE LET k == KeyOrder[i] IN
         IF k \notin DOMAIN o THEN StringifyFrom(o, i + 1, first)
         ELSE LET text ==
                    IF k \in ObjectKeys
                      THEN "{" \o StringifyFrom(o[k], 1, TRUE) \o "}"
                    ELSE IF k \in NumberKeys THEN NumToString(o[k])
                    ELSE IF k \in BooleanKeys
                      THEN (IF o[k] THEN "true" ELSE "false")
                    ELSE "\"" \o o[k] \o "\""
              IN (IF first THEN "" ELSE ",") \o "\"" \o k \o "\":" \o text
                 \o StringifyFrom(o, i + 1, FALSE)

\* JSON.stringify(o) for an object o: compact, no whitespace, no escapes
JSONStringify(o) == "{" \o StringifyFrom(o, 1, TRUE) \o "}"

\* A raw body on the wire is a JSON value in one of three layouts:
\*   compact    the text JSON.stringify writes for the value
\*   spaced     the same value with insignificant whitespace
\*   malformed  a truncated text, which is not JSON
Layouts == {"compact", "spaced", "malformed"}

\* the bytes of a raw body
Bytes(raw) ==
    CASE raw.layout = "compact"   -> JSONStringify(raw.value)
      [] raw.layout = "spaced"    -> "{ " \o StringifyFrom(raw.value, 1, TRUE) \o " }"
      [] raw.layout = "malformed" -> "{" \o StringifyFrom(raw.value, 1, TRUE)

\* express.json(): the parsed value of the raw body, or a parse failure
JSONParse(raw) ==
    IF raw.layout = "malformed" THEN [ok |-> FALSE, body |-> <<>>]
    ELSE [ok |-> TRUE, body |-> raw.value]

-----------------------------------------------------------------------------
(* Signature Verifier *)

MESSAGE_TYPE_VERIFICATION == "webhook_callback_verification"
MESSAGE_TYPE_NOTIFICATION == "notification"
MESSAGE_TYPE_REVOCATION == "revocation"

\* crypto.createHmac('sha256', secret).update(message).digest('hex'):
\* injective in (secret, message)
HmacSha256Hex(secret, message) == "hmac[" \o secret \o "](" \o message \o ")"

\* the signature the sender computes: over the bytes it sends
TwitchSignature(secret, messageId, timestamp, raw) ==
    "sha256=" \o HmacSha256Hex(secret, messageId \o timestamp \o Bytes(raw))

\* the message verifyTwitchSignature digests
SignedMessage(r) ==
    ToStr(r.headers.id) \o ToStr(r.headers.timestamp) \o JSONStringify(r.body)

verifyTwitchSignature(r, secret) ==
    LET signature == "sha256=" \o HmacSha256Hex(secret, SignedMessage(r))
    IN  signature = r.headers.signature

-----------------------------------------------------------------------------
(* Event handlers: each returns whether it threw, and the emits it made *)

Threw == [threw |-> TRUE, emits |-> <<>>]

Returned(emits) == [threw |-> FALSE, emits |-> emits]

\* if (_io) { _io.emit(name, data) }
Emit(ioRef, name, data) ==
    IF ioRef # Undefined THEN <<[name |-> name, data |-> data]>> ELSE <<>>

\* {k: v} with the property left out when v is undefined
StrField(k, v) == IF v = Undefined THEN <<>> ELSE (k :> v)

\* {k: o[k]} for a number property, left out when o has none
NumField(k, o, from) == IF from \in DOMAIN o THEN (k :> o[from]) ELSE <<>>

IsAnonymous(event) ==
    IF "is_anonymous" \in DOMAIN event THEN event.is_anonymous ELSE FALSE

\* handleFollowEvent preferring the login to the display name
handleFollowEventPrefersLogin(eventOpt, ioRef) ==
    IF eventOpt = <<>> THEN Threw
    ELSE LET event == eventOpt[1]
             userName == OrElse(Prop(event, "user_login"), Prop(event, "user_name"))
         IN  Returned(Emit(ioRef, "follow",
                 StrField("username", userName)
                 @@ StrField("followedAt", Prop(event, "followed_at"))))

handleFollowEvent(eventOpt, ioRef) ==
    IF eventOpt = <<>> THEN Threw
    ELSE LET event == eventOpt[1]
             userName == OrElse(Prop(event, "user_name"), Prop(event, "user_login"))
         IN  Returned(Emit(ioRef, "follow",
                 StrField("username", userName)
                 @@ StrField("followedAt", Prop(event, "followed_at"))))

\* handleSubscriptionEvent announcing one month whatever the event says
handleSubscriptionEventOneMonth(eventOpt, eventType, ioRef) ==
    IF eventOpt = <<>> THEN Threw
    ELSE LET event == eventOpt[1]
             named == OrElse(Prop(event, "user_name"), Prop(event, "user_login"))
             username ==
                 IF eventType = "channel.subscription.gift" /\ IsAnonymous(event)
                   THEN "Anonymous" ELSE named
         IN  Returned(Emit(ioRef, "subscription",
                 StrField("username", username)
                 @@ ("months" :> "1")
                 @@ StrField("tier", Prop(event, "tier"))
                 @@ ("isGift" :> (eventType = "channel.subscription.gift"))))

handleSubscriptionEvent(eventOpt, eventType, ioRef) ==
    IF eventOpt = <<>> THEN Threw
    ELSE LET event == eventOpt[1]
             named == OrElse(Prop(event, "user_name"), Prop(event, "user_login"))
             username ==
                 IF eventType = "channel.subscription.gift" /\ IsAnonymous(event)
                   THEN "Anonymous" ELSE named
             isGift == eventType = "channel.subscription.gift"
             months ==
                 IF eventType = "channel.subscription.message"
                    /\ "cumulative_months" \in DOMAIN event
                    /\ event.cumulative_months # 0
                   THEN event.cumulative_months ELSE 1
         IN  Returned(Emit(ioRef, "subscription",
                 StrField("username", username)
                 @@ ("months" :> NumToString(months))
                 @@ StrField("tier", Prop(event, "tier"))
                 @@ ("isGift" :> isGift)))

handleRaidEvent(eventOpt, ioRef) ==
    IF eventOpt = <<>> THEN Threw
    ELSE LET event == eventOpt[1]
             username == OrElse(Prop(event, "from_broadcaster_user_name"),
                                Prop(event, "from_broadcaster_user_login"))
         IN  Returned(Emit(ioRef, "raid",
                 StrField("username", username)
                 @@ NumField("viewers", event, "viewers")))

\* handleCheerEvent naming the user whether anonymous or not
handleCheerEventNamesEveryone(eventOpt, ioRef) ==
    IF eventOpt = <<>> THEN Threw
    ELSE LET event == eventOpt[1]
         IN  Returned(Emit(ioRef, "cheer",
                 StrField("username", OrElse(Prop(event, "user_name"),
                                             Prop(event, "user_login")))
                 @@ NumField("bits", event, "bits")))

handleCheerEvent(eventOpt, ioRef) ==
    IF eventOpt = <<>> THEN Threw
    ELSE LET event == eventOpt[1]
             username ==
                 IF IsAnonymous(event) THEN "Anonymous"
                 ELSE OrElse(Prop(event, "user_name"), Prop(event, "user_login"))
         IN  Returned(Emit(ioRef, "cheer",
                 StrField("username", username)
                 @@ NumField("bits", event, "bits")))

HandledTypes == {"channel.follow", "channel.subscribe", "channel.subscription.gift",
                 "channel.subscription.message", "channel.raid", "channel.cheer"}

\* handleEventNotification with a default branch that announces the event as
\* a follow instead of only logging it
handleEventNotificationEmitsUnhandled(body, ioRef) ==
    LET subscriptionOpt == ObjProp(body, "subscription")
        eventOpt == ObjProp(body, "event")
    IN  IF subscriptionOpt = <<>> THEN Threw
        ELSE LET type == Prop(subscriptionOpt[1], "type") IN
             CASE type \in {"channel.subscribe", "channel.subscription.gift",
                            "channel.subscription.message"}
                    -> handleSubscriptionEvent(eventOpt, type, ioRef)
               [] type = "channel.raid" -> handleRaidEvent(eventOpt, ioRef)
               [] type = "channel.cheer" -> handleCheerEvent(eventOpt, ioRef)
               [] OTHER -> handleFollowEvent(eventOpt, ioRef)

handleEventNotification(body, ioRef) ==
    LET subscriptionOpt == ObjProp(body, "subscription")
        eventOpt == ObjProp(body, "event")
    IN  IF subscriptionOpt = <<>> THEN Threw   \* subscription.type of undefined
        ELSE LET type == Prop(subscriptionOpt[1], "type") IN
             CASE type = "channel.follow" -> handleFollowEvent(eventOpt, ioRef)
               [] type \in {"channel.subscribe", "channel.subscription.gift",
                            "channel.subscription.message"}
                    -> handleSubscriptionEvent(eventOpt, type, ioRef)
               [] type = "channel.raid" -> handleRaidEvent(eventOpt, ioRef)
               [] type = "channel.cheer" -> handleCheerEvent(eventOpt, ioRef)
               [] OTHER -> Returned(<<>>)

-----------------------------------------------------------------------------
(* Webhook Dispatcher: POST /webhook/twitch *)

Response(status, body, emits, verified, answeredBy) ==
    [status |-> status, body |-> body, emits |-> emits,
     verdict |-> verified, branch |-> answeredBy]

\* a handler that throws synchronously: Express answers 500
Uncaught(emits, answeredBy) ==
    Response(500, "Internal Server Error", emits, "authentic", answeredBy)

\* VerificationResponse with the parsed body sent back instead of the challenge
VerificationSendsBody(r) ==
    Response(200, JSONStringify(r.body), <<>>, "authentic", "verification")

\* case MESSAGE_TYPE_VERIFICATION: res.status(200).send(req.body.challenge)
VerificationResponse(r) ==
    LET challenge == Prop(r.body, "challenge")
    IN  Response(200, IF challenge = Undefined THEN "" ELSE challenge,
                 <<>>, "authentic", "verification")

\* case MESSAGE_TYPE_NOTIFICATION
NotificationResponse(r, ioRef) ==
    LET handled == handleEventNotification(r.body, ioRef)
    IN  IF handled.threw THEN Uncaught(handled.emits, "notification")
        ELSE Response(204, "", handled.emits, "authentic", "notification")

\* case MESSAGE_TYPE_REVOCATION: logs req.body.subscription.type, .status, .id
RevocationResponse(r) ==
    IF ObjProp(r.body, "subscription") = <<>> THEN Uncaught(<<>>, "revocation")
    ELSE Response(204, "", <<>>, "authentic", "revocation")

\* UnknownTypeResponse answering an unknown type as a bad request
UnknownTypeRefused(r) == Response(400, "Unknown message type", <<>>, "authentic", "unknown")

\* default:
UnknownTypeResponse(r) == Response(204, "", <<>>, "authentic", "unknown")

\* switch (messageType)
Dispatch(r, ioRef) ==
    LET messageType == r.headers.type
    IN  CASE messageType = MESSAGE_TYPE_VERIFICATION -> VerificationResponse(r)
          [] messageType = MESSAGE_TYPE_NOTIFICATION -> NotificationResponse(r, ioRef)
          [] messageType = MESSAGE_TYPE_REVOCATION -> RevocationResponse(r)
          [] OTHER -> UnknownTypeResponse(r)

\* TwitchWebhook without the return after a failed signature check
TwitchWebhookFallsThrough(r, secret, ioRef) ==
    IF ~Truthy(secret)
      THEN Response(500, "Webhook secret not configured", <<>>, "unchecked", "no_secret")
    ELSE IF ~verifyTwitchSignature(r, secret)
      THEN [Dispatch(r, ioRef) EXCEPT !.verdict = "forged"]
    ELSE Dispatch(r, ioRef)

\* TwitchWebhook without the check that the secret is configured
TwitchWebhookNoSecretCheck(r, secret, ioRef) ==
    IF ~verifyTwitchSignature(r, ToStr(secret))
      THEN Response(403, "Invalid signature", <<>>, "forged", "rejected")
    ELSE Dispatch(r, ioRef)

\* the route handler, given the request with its parsed body
TwitchWebhook(r, secret, ioRef) ==
    IF ~Truthy(secret)
      THEN Response(500, "Webhook secret not configured", <<>>, "unchecked", "no_secret")
    ELSE IF ~verifyTwitchSignature(r, secret)
      THEN Response(403, "Invalid signature", <<>>, "forged", "rejected")
    ELSE Dispatch(r, ioRef)

\* the route: express.json(), then the handler; a body that does not parse
\* is answered 400 by the body parser and the handler does not run
Route(r, secret, ioRef) ==
    LET parsed == JSONParse(r.raw)
    IN  IF ~parsed.ok
          THEN Response(400, "Bad Request", <<>>, "unchecked", "parse_error")
        ELSE TwitchWebhook([headers |-> r.headers, body |-> parsed.body],
                           secret, ioRef)

-----------------------------------------------------------------------------
(* Subscription Registrar: registerSubscription *)

ConditionFor(type, userId) ==
    IF type = "channel.raid" THEN [to_broadcaster_user_id |-> userId]
    ELSE [broadcaster_user_id |-> userId]

Subscription(type, version, condition) ==
    [type |-> type, version |-> version, condition |-> condition,
     status |-> "enabled"]

CreateOutcomes == {"created", "http_error", "no_response"}

\* registerSubscription(type, userId), the remote API answering the version-1
\* request with `first` and the version-2 request (if one is sent) with
\* `second`: the result and the subscriptions created remotely
registerSubscription(type, userId, e, first, second) ==
    IF ~(Truthy(e.TWITCH_APP_ACCESS_TOKEN) /\ Truthy(e.TWITCH_CLIENT_ID)
         /\ Truthy(e.TWITCH_WEBHOOK_SECRET) /\ Truthy(e.PUBLIC_URL))
      THEN [success |-> FALSE, requests |-> 0, created |-> {}]
    ELSE IF first = "created"
      THEN [success |-> TRUE, requests |-> 1,
            created |-> {Subscription(type, "1", ConditionFor(type, userId))}]
    ELSE IF type = "channel.follow" /\ first = "http_error"
      THEN IF second = "created"
             THEN [success |-> TRUE, requests |-> 2,
                   created |-> {Subscription(type, "2",
                                   [broadcaster_user_id |-> userId,
                                    moderator_user_id |-> userId])}]
           ELSE [success |-> FALSE, requests |-> 2, created |-> {}]
    ELSE [success |-> FALSE, requests |-> 1, created |-> {}]

-----------------------------------------------------------------------------
(* Asynchronous operations, followed from one await to the next.  A call   *)
(* record holds the operation that was called (op), the function whose     *)
(* await is pending (fn: the operation itself, or a function it awaits),   *)
(* the requests that function has sent to the remote API so far, and how   *)
(* the operation completed.                                                *)

\* who calls the operations: one caller, which awaits the result of an
\* operation before it calls the next
Slots == {"caller"}

Null == "<null>"

IdleCall ==
    [op |-> "none", fn |-> "none", pc |-> "idle", arg |-> Undefined,
     type |-> Undefined, userId |-> Undefined, index |-> 0, results |-> <<>>,
     requests |-> <<>>, issued |-> <<>>, before |-> <<>>,
     completion |-> "pending", result |-> [success |-> FALSE]]

NoCalls == [c \in Slots |-> IdleCall]

TokenKeys ==
    {"TWITCH_ACCESS_TOKEN", "TWITCH_REFRESH_TOKEN",
     "TWITCH_USER_TOKEN", "TWITCH_USER_REFRESH_TOKEN"}

\* the token database with no row
EmptyStore == [k \in TokenKeys |-> Null]

ListRequest == [kind |-> "list", outcome |-> "pending", data |-> {}]

LookupRequest == [kind |-> "lookup", outcome |-> "pending"]

CreateRequest(type, version, condition) ==
    [kind |-> "create", type |-> type, version |-> version,
     condition |-> condition, outcome |-> "pending"]

\* the pending request of a call has been answered
Answered(requests, outcome) ==
    [requests EXCEPT ![Len(requests)].outcome = outcome]

ListOutcomes == {"ok", "malformed", "http_error", "no_response"}

LookupOutcomes == {"found", "not_found", "malformed", "http_error", "no_response"}

\* { success: true, ... } and { success: false, error }
Success(message) == [success |-> TRUE, error |-> Undefined, message |-> message]

Failure(error) == [success |-> FALSE, error |-> error, message |-> Undefined]

\* the functions whose awaits all sit inside a try block whose catch returns
\* a result
GuardedButUserLookup ==
    {"setupEventSub", "registerSubscription", "getSubscriptions",
     "setupFollowSubscription", "refreshTwitchToken", "refreshUserToken"}

Guarded ==
    {"setupEventSub", "registerSubscription", "getSubscriptions", "getUserId",
     "setupFollowSubscription", "refreshTwitchToken", "refreshUserToken"}

\* the operation returns `result` to its caller
Returns(call, result) ==
    [call EXCEPT !.pc = "done", !.completion = "returned", !.result = result]

\* the promise of the operation is rejected
Rejects(call) ==
    [call EXCEPT !.pc = "done", !.completion = "rejected",
                 !.result = Failure("uncaught")]

\* the function whose await was pending returns `result`: to the caller of
\* the operation, or to the operation that awaits it
FnReturns(call, result) ==
    IF call.op = call.fn THEN Returns(call, result)
    ELSE [call EXCEPT !.pc = "resume", !.result = result]

\* an awaited request failed, or the code after it threw: the catch block of
\* the function returns `result`; without one the exception reaches the
\* awaiting operation (catch of setupEventSub, lines 236-242) or the caller
Throws(call, result) ==
    IF call.fn \in Guarded THEN FnReturns(call, result)
    ELSE IF call.op # call.fn /\ call.op \in Guarded
      THEN Returns(call, Failure("exception"))
    ELSE Rejects(call)

-----------------------------------------------------------------------------
(* Subscription Registrar, step by step: setupEventSub, registerSubscription, *)
(* getSubscriptions, getUserId (src/eventsub.js) and                          *)
(* setupFollowSubscription (src/user-auth.js)                                 *)

\* const eventTypes = [...]
eventTypes ==
    <<"channel.follow", "channel.subscribe", "channel.subscription.gift",
      "channel.subscription.message", "channel.raid", "channel.cheer">>

\* the id the remote API knows a channel name by
UserIdOf(username) == "u1"

\* RegistrationRefused checking the Twitch API credentials only
RegistrationRefusedCredentialsOnly(fn, e, userId) ==
    IF ~Truthy(e.TWITCH_APP_ACCESS_TOKEN) \/ ~Truthy(e.TWITCH_CLIENT_ID)
      THEN "Missing required configuration"
    ELSE Undefined

\* the checks a registration function makes before its first request: the
\* error of the result it returns at once, Undefined when it goes on
RegistrationRefused(fn, e, userId) ==
    IF fn = "registerSubscription"
      THEN IF \/ ~Truthy(e.TWITCH_APP_ACCESS_TOKEN) \/ ~Truthy(e.TWITCH_CLIENT_ID)
              \/ ~Truthy(e.TWITCH_WEBHOOK_SECRET) \/ ~Truthy(e.PUBLIC_URL)
             THEN "Missing required configuration"
           ELSE Undefined
    ELSE IF ~Truthy(e.TWITCH_APP_ACCESS_TOKEN)
      THEN "No app access token available"
    ELSE IF \/ ~Truthy(e.TWITCH_CLIENT_ID) \/ ~Truthy(e.TWITCH_WEBHOOK_SECRET)
            \/ ~Truthy(e.PUBLIC_URL)
      THEN "Missing required configuration"
    ELSE IF ~Truthy(userId) THEN "No broadcaster ID provided"
    ELSE Undefined

\* if (!process.env.TWITCH_APP_ACCESS_TOKEN || !process.env.TWITCH_CLIENT_ID)
CredentialsMissing(e) ==
    ~Truthy(e.TWITCH_APP_ACCESS_TOKEN) \/ ~Truthy(e.TWITCH_CLIENT_ID)

\* the condition of the version-2 channel.follow request
FollowV2Condition(userId) ==
    [broadcaster_user_id |-> userId, moderator_user_id |-> userId]

\* TriesVersion2 with the fallback taken by every type
TriesVersion2EveryType(fn, type, outcome) == outcome # "created"

\* whether a failed version-1 create request is followed by a version-2 one
TriesVersion2(fn, type, outcome) ==
    IF fn = "registerSubscription"
      THEN type = "channel.follow" /\ outcome = "http_error"  \* error.response?.status
    ELSE outcome # "created"                                  \* catch (errorV1)

\* sub.type === 'channel.follow' && sub.condition.broadcaster_user_id === userId
ExistingFollowSub(sub, userId) ==
    sub.type = "channel.follow" /\ Prop(sub.condition, "broadcaster_user_id") = userId

\* the function sends its version-1 create request
SendsCreate(call) ==
    [call EXCEPT !.pc = "create",
                 !.requests = Append(@, CreateRequest(call.type, "1",
                                 IF call.fn = "registerSubscription"
                                   THEN ConditionFor(call.type, call.userId)
                                 ELSE [broadcaster_user_id |-> call.userId]))]

\* fn(type, userId) is called and runs to its first await, or to its return
StartRegistration(call, fn, type, userId, e) ==
    LET started == [call EXCEPT !.fn = fn, !.type = type, !.userId = userId,
                                !.requests = <<>>]
        refused == RegistrationRefused(fn, e, userId)
    IN  IF refused # Undefined THEN FnReturns(started, Failure(refused))
        ELSE IF fn = "registerSubscription" THEN SendsCreate(started)
        ELSE [started EXCEPT !.pc = "list", !.requests = <<ListRequest>>]

\* getUserId(username) is called and runs to its first await, or to its return
StartLookup(call, username, e) ==
    LET started == [call EXCEPT !.fn = "getUserId", !.arg = username,
                                !.requests = <<>>]
    IN  IF ~Truthy(username) THEN FnReturns(started, Failure("No username provided"))
        ELSE IF CredentialsMissing(e)
          THEN FnReturns(started, Failure("Missing Twitch API credentials"))
        ELSE [started EXCEPT !.pc = "lookup", !.requests = <<LookupRequest>>]

\* the list request of a function is answered; `held` is what the remote
\* API holds
ListAnswered(call, outcome, held) ==
    LET answered ==
          [call EXCEPT !.requests[Len(call.requests)].outcome = outcome,
                       !.requests[Len(call.requests)].data =
                            IF outcome = "ok" THEN held ELSE {}]
    IN  IF call.fn = "getSubscriptions"
          THEN IF outcome \in {"ok", "malformed"}
                 THEN FnReturns(answered, Success(Undefined))
               ELSE Throws(answered, Failure("remote error"))
        ELSE IF outcome = "ok"
                  /\ \E sub \in held : ExistingFollowSub(sub, call.userId)
          THEN FnReturns(answered, Success("Follow events were already set up"))
        ELSE SendsCreate(answered)   \* the catch of the list request only logs

\* the create request of a function is answered
CreateAnswered(call, outcome) ==
    LET request == call.requests[Len(call.requests)]
        answered == [call EXCEPT !.requests = Answered(@, outcome)]
    IN  IF outcome = "created" THEN FnReturns(answered, Success(Undefined))
        ELSE IF request.version = "1" /\ TriesVersion2(call.fn, call.type, outcome)
          THEN [answered EXCEPT
                  !.requests = Append(@, CreateRequest(call.type, "2",
                                             FollowV2Condition(call.userId)))]
        ELSE Throws(answered,
                    Failure(IF call.fn = "setupFollowSubscription"
                              THEN "Could not set up follow events"
                            ELSE "remote error"))

\* the user lookup of getUserId is answered
LookupAnswered(call, outcome) ==
    LET answered == [call EXCEPT !.requests = Answered(@, outcome)]
    IN  IF outcome = "found"
          THEN FnReturns(answered, [success |-> TRUE, error |-> Undefined,
                                    message |-> Undefined,
                                    id |-> UserIdOf(call.arg)])
        ELSE IF outcome = "not_found"
          THEN FnReturns(answered, Failure("User not found"))
        ELSE Throws(answered, Failure("remote error"))

\* setupEventSub goes on after the function it awaited has returned
Resumed(call, e) ==
    IF call.fn = "getUserId"
      THEN IF ~call.result.success THEN Returns(call, call.result)
           ELSE StartRegistration([call EXCEPT !.index = 1], "registerSubscription",
                                  eventTypes[1], call.result.id, e)
    ELSE LET results == Append(call.results, [type |-> call.type,
                                              success |-> call.result.success])
         IN  IF call.index < Len(eventTypes)
               THEN StartRegistration([call EXCEPT !.index = @ + 1,
                                                   !.results = results],
                                      "registerSubscription",
                                      eventTypes[call.index + 1], call.userId, e)
             ELSE Returns([call EXCEPT !.results = results], Success(Undefined))

\* an operation of the registrar is called and runs to its first await
CalledRegistrar(op, type, arg, e) ==
    LET call == [IdleCall EXCEPT !.op = op, !.fn = op, !.arg = arg]
    IN  CASE op = "registerSubscription" -> StartRegistration(call, op, type, arg, e)
          [] op = "setupFollowSubscription" -> StartRegistration(call, op, type, arg, e)
          [] op = "getUserId" -> StartLookup(call, arg, e)
          [] op = "setupEventSub" ->
               IF CredentialsMissing(e)
                 THEN Returns(call, Failure("Missing Twitch API credentials"))
               ELSE StartLookup(call, arg, e)
          [] op = "getSubscriptions" ->
               IF CredentialsMissing(e)
                 THEN Returns(call, Failure("Missing Twitch API credentials"))
               ELSE [call EXCEPT !.pc = "list", !.requests = <<ListRequest>>]

-----------------------------------------------------------------------------
(* Credential Manager: refreshTwitchToken (src/auth.js, tokens kept by    *)
(* storeToken/getToken of src/db.js) and refreshUserToken                  *)
(* (src/user-auth.js, tokens kept by saveToken of src/db.js)               *)

\* null, undefined and '' are falsy
Present(v) == v \notin {Null, Undefined, ""}

\* the token values of the model: a0/r0 were issued when the user
\* authorized, a1/r1 and a2/r2 are issued by refreshes
TokenValues == {"a0", "r0", "a1", "r1", "a2", "r2"}

\* encrypt: the text itself without ENCRYPTION_KEY, else iv:ciphertext
encrypt(text, key) ==
    IF ~Present(key) THEN text ELSE "iv:" \o key \o ":" \o text

\* decrypt: the text itself without ENCRYPTION_KEY or without a ':' in it,
\* else the plaintext, or the text itself when deciphering fails
decrypt(text, key) ==
    IF ~Present(key) \/ text \in TokenValues THEN text
    ELSE IF \E t \in TokenValues : encrypt(t, key) = text
      THEN CHOOSE t \in TokenValues : encrypt(t, key) = text
    ELSE text

\* storeToken(name, value) when the database accepts the write
storeToken(st, name, value, e) ==
    [st EXCEPT ![name] = encrypt(value, e.ENCRYPTION_KEY)]

\* getToken(name) when the database answers: null without a row
getToken(st, name, e) ==
    IF st[name] = Null THEN Null ELSE decrypt(st[name], e.ENCRYPTION_KEY)

\* saveToken inserting a row only where the key has none
saveTokenKeepsFirst(st, key, value) ==
    IF st[key] = Null THEN [st EXCEPT ![key] = value] ELSE st

\* saveToken(key, value) when the database accepts the write:
\* INSERT OR REPLACE INTO tokens, key being the primary key
saveToken(st, key, value) == [st EXCEPT ![key] = value]

\* getToken(key) of the SQLite store when the database answers:
\* resolve(row ? row.value : null)
getTokenRow(st, key) == IF st[key] = Null THEN Null ELSE st[key]

AccessKey(fn) ==
    IF fn = "refreshTwitchToken" THEN "TWITCH_ACCESS_TOKEN" ELSE "TWITCH_USER_TOKEN"

RefreshKey(fn) ==
    IF fn = "refreshTwitchToken" THEN "TWITCH_REFRESH_TOKEN"
    ELSE "TWITCH_USER_REFRESH_TOKEN"

\* what the database holds under a key, as the module of fn reads it back
Persisted(st, fn, key, e) ==
    IF fn = "refreshTwitchToken" THEN getToken(st, key, e) ELSE st[key]

ReadRequest(key) == [kind |-> "read", key |-> key, outcome |-> "pending"]

TokenRequest(refreshToken) ==
    [kind |-> "token", refresh_token |-> refreshToken, outcome |-> "pending"]

StoreRequest(key, value) ==
    [kind |-> "store", key |-> key, value |-> value, outcome |-> "pending"]

DbOutcomes == {"ok", "db_error"}

\* the token request fails (the identity provider refuses the refresh token
\* as invalid or expired, answers with another error status, or does not
\* answer), or its response has no data to destructure
TokenFailures == {"invalid_grant", "http_error", "no_response", "malformed"}

TokenOutcomes ==
    {"issued", "issued_anew", "issued_without_refresh"} \cup TokenFailures

\* const { access_token, refresh_token } = response.data
Issued(outcome) ==
    IF outcome = "issued_anew"
      THEN [access_token |-> "a2", refresh_token |-> "r2"]
    ELSE [access_token |-> "a1",
          refresh_token |-> IF outcome = "issued" THEN "r1" ELSE Undefined]

\* return null, when there is no refresh token
NothingToRefresh == [value |-> Null]

\* return null, in the catch block
RefreshFailed == [value |-> Null]

\* a refresh function is called and runs to its first await, or to its
\* return; `st` and `e` are the database and process.env at the call
RefreshStarted(op, st, e) ==
    LET call == [IdleCall EXCEPT !.op = op, !.fn = op,
                                 !.before = <<[env |-> e, store |-> st]>>]
    IN  IF op = "refreshTwitchToken"
          THEN [call EXCEPT !.pc = "read",
                            !.requests = <<ReadRequest(RefreshKey(op))>>]
        ELSE LET refreshToken == e.TWITCH_USER_REFRESH_TOKEN
             IN  IF ~Present(refreshToken)
                   THEN FnReturns([call EXCEPT !.arg = refreshToken], NothingToRefresh)
                 ELSE [call EXCEPT !.arg = refreshToken, !.pc = "token",
                                   !.requests = <<TokenRequest(refreshToken)>>]

\* await db.getToken('TWITCH_REFRESH_TOKEN') has settled: getToken returns
\* null when the database fails
ReadAnswered(call, outcome, st, e) ==
    LET refreshToken == IF outcome = "ok" THEN getToken(st, RefreshKey(call.fn), e)
                        ELSE Null
        answered == [call EXCEPT !.requests = Answered(@, outcome),
                                 !.arg = refreshToken]
    IN  IF ~Present(refreshToken) THEN FnReturns(answered, NothingToRefresh)
        ELSE [answered EXCEPT !.pc = "token",
                              !.requests = Append(@, TokenRequest(refreshToken))]

\* POST id.twitch.tv/oauth2/token has settled
TokenAnswered(call, outcome) ==
    LET answered == [call EXCEPT !.requests = Answered(@, outcome)]
    IN  IF outcome \in TokenFailures
          THEN Throws(answered, RefreshFailed)
        ELSE [answered EXCEPT
                !.issued = <<Issued(outcome)>>, !.pc = "store",
                !.requests = Append(@, StoreRequest(AccessKey(call.fn),
                                                    Issued(outcome).access_token))]

\* EnvAfterToken leaving process.env as it was
EnvAfterTokenUnchanged(call, outcome, e) == e

\* EnvAfterToken forgetting the access token when the token request failed
EnvAfterTokenForgetsOnFailure(call, outcome, e) ==
    IF outcome \in TokenFailures
      THEN [e EXCEPT ![AccessKey(call.fn)] = Undefined]
    ELSE IF call.fn = "refreshUserToken"
      THEN [e EXCEPT !.TWITCH_USER_TOKEN = Issued(outcome).access_token,
                     !.TWITCH_USER_REFRESH_TOKEN =
                          IF Present(Issued(outcome).refresh_token)
                            THEN Issued(outcome).refresh_token ELSE @]
    ELSE e

\* process.env once the token request has settled: refreshUserToken updates
\* the tokens in memory before it saves them
EnvAfterToken(call, outcome, e) ==
    IF call.fn = "refreshUserToken" /\ outcome \notin TokenFailures
      THEN [e EXCEPT !.TWITCH_USER_TOKEN = Issued(outcome).access_token,
                     !.TWITCH_USER_REFRESH_TOKEN =
                          IF Present(Issued(outcome).refresh_token)
                            THEN Issued(outcome).refresh_token ELSE @]
    ELSE e

\* StoresRefreshNext for a function that never writes the refresh token
StoresRefreshNever(call, outcome) == FALSE

\* whether the function goes on to write the refresh token to the database:
\* after the access token, when a refresh token was issued; a failed
\* saveToken takes refreshUserToken to its catch block instead
StoresRefreshNext(call, outcome) ==
    /\ call.requests[Len(call.requests)].key = AccessKey(call.fn)
    /\ Present(call.issued[1].refresh_token)
    /\ call.fn = "refreshTwitchToken" \/ outcome = "ok"

\* a write to the database has settled
StoreAnswered(call, outcome) ==
    LET answered == [call EXCEPT !.requests = Answered(@, outcome)]
    IN  IF StoresRefreshNext(call, outcome)
          THEN [answered EXCEPT
                  !.requests = Append(@, StoreRequest(RefreshKey(call.fn),
                                                      call.issued[1].refresh_token))]
        ELSE FnReturns(answered, [value |-> call.issued[1].access_token])

\* the database once the write has settled
StoreAfterWrite(call, outcome, st, e) ==
    LET request == call.requests[Len(call.requests)]
    IN  IF outcome # "ok" THEN st
        ELSE IF call.fn = "refreshTwitchToken"
          THEN storeToken(st, request.key, request.value, e)
        ELSE saveToken(st, request.key, request.value)

\* process.env once the write has settled: refreshTwitchToken updates the
\* tokens in memory after its last write
EnvAfterStore(call, outcome, e) ==
    IF call.fn = "refreshTwitchToken" /\ ~StoresRefreshNext(call, outcome)
      THEN [e EXCEPT !.TWITCH_ACCESS_TOKEN = call.issued[1].access_token,
                     !.TWITCH_REFRESH_TOKEN =
                          IF Present(call.issued[1].refresh_token)
                            THEN call.issued[1].refresh_token ELSE @]
    ELSE e

-----------------------------------------------------------------------------
(* Inputs *)

Secrets == {"s1", "s2"}

UserIds == {"u1"}

SetEnv(secret) ==
    [TWITCH_WEBHOOK_SECRET |-> secret, TWITCH_APP_ACCESS_TOKEN |-> "app-token",
     TWITCH_CLIENT_ID |-> "client-id", PUBLIC_URL |-> "https://bot.example"]

\* the environments the process is started in
Environments ==
    {SetEnv(k) : k \in Secrets \cup {Undefined}}
    \cup {[SetEnv("s1") EXCEPT ![v] = Undefined] :
            v \in {"TWITCH_APP_ACCESS_TOKEN", "TWITCH_CLIENT_ID", "PUBLIC_URL"}}

RaidSubscription ==
    [id |-> "sub-1", type |-> "channel.raid", version |-> "1", status |-> "enabled",
     condition |-> [to_broadcaster_user_id |-> "u1"]]

SubscriptionOf(type) ==
    [type |-> type, version |-> "1", status |-> "enabled",
     condition |-> [broadcaster_user_id |-> "u1"]]

\* JSON values of delivery bodies
BodyValues ==
    { [challenge |-> "abc123"],
      [challenge |-> "pogchamp", subscription |-> RaidSubscription],
      [subscription |-> [RaidSubscription EXCEPT !.status = "authorization_revoked"]],
      [subscription |-> RaidSubscription,
       event |-> [from_broadcaster_user_login |-> "foo",
                  from_broadcaster_user_name |-> "Foo", viewers |-> 12]],
      [subscription |-> RaidSubscription,
       event |-> [from_broadcaster_user_login |-> "bar", viewers |-> 3]],
      [subscription |-> SubscriptionOf("channel.follow"),
       event |-> [user_login |-> "ann", followed_at |-> "2024-01-01T00:00:00Z"]],
      [subscription |-> SubscriptionOf("channel.follow"),
       event |-> [user_login |-> "cat", user_name |-> "Cat",
                  followed_at |-> "2024-01-02T00:00:00Z"]],
      [subscription |-> SubscriptionOf("channel.subscribe"),
       event |-> [user_login |-> "ann", user_name |-> "Ann", tier |-> "1000",
                  is_gift |-> FALSE]],
      [subscription |-> SubscriptionOf("channel.subscription.gift"),
       event |-> [user_login |-> "ann", user_name |-> "Ann", tier |-> "2000",
                  is_anonymous |-> TRUE]],
      [subscription |-> SubscriptionOf("channel.subscription.gift"),
       event |-> [user_login |-> "bob", tier |-> "1000", is_anonymous |-> FALSE]],
      [subscription |-> SubscriptionOf("channel.subscription.message"),
       event |-> [user_login |-> "ann", user_name |-> "Ann", tier |-> "3000"]],
      [subscription |-> SubscriptionOf("channel.subscription.message"),
       event |-> [user_login |-> "ann", user_name |-> "Ann", tier |-> "1000",
                  cumulative_months |-> 5]],
      [subscription |-> SubscriptionOf("channel.cheer"),
       event |-> [user_login |-> "ann", user_name |-> "Ann",
                  is_anonymous |-> FALSE, bits |-> 100]],
      [subscription |-> SubscriptionOf("channel.cheer"),
       event |-> [user_login |-> "ann", user_name |-> "Ann",
                  is_anonymous |-> TRUE, bits |-> 50]],
      [subscription |-> SubscriptionOf("channel.update"),
       event |-> [user_login |-> "ann"]] }

RawBodies == {[layout |-> l, value |-> v] : l \in Layouts, v \in BodyValues}

MessageTypes == {MESSAGE_TYPE_VERIFICATION, MESSAGE_TYPE_NOTIFICATION,
                 MESSAGE_TYPE_REVOCATION, "session_keepalive", Undefined}

MessageIds == {"m1"}

Timestamps == {"2024-01-01T00:00:00Z"}

\* the signature headers a delivery of (id, timestamp, raw) may carry: none,
\* the sender's signature over the bytes sent, or the signature over the
\* re-serialized body, each under either secret
SignaturesFor(id, timestamp, raw) ==
    {Undefined}
    \cup {TwitchSignature(k, ToStr(id), ToStr(timestamp), raw) : k \in Secrets}
    \cup {"sha256=" \o HmacSha256Hex(k, ToStr(id) \o ToStr(timestamp)
                                         \o JSONStringify(raw.value)) : k \in Secrets}

-----------------------------------------------------------------------------
(* The state machine *)

NoRequest ==
    [headers |-> [id |-> Undefined, timestamp |-> Undefined,
                  signature |-> Undefined, type |-> Undefined],
     raw |-> [layout |-> "none", value |-> <<>>]]

NoResponse == [status |-> 0, body |-> ""]

\* connections are named 1, 2, ... in the order they are opened; this is the
\* value of db while it is undefined and of dbPromise while it is null
NoConnection == 0

\* the promise-based db.js when it has been required: db undefined, both
\* flags false, no promise, no connection opened
NewDatabase ==
    [db |-> NoConnection, dbInitialized |-> FALSE, dbInitializing |-> FALSE,
     dbPromise |-> NoConnection, connections |-> <<>>]

\* the socket.on calls of the first alerts page, in the order they are made
FirstPageListeners ==
    <<"follow", "subscription", "raid", "cheer", "subscription with tiers">>

\* the socket.on calls of the second alerts page
SecondPageListeners ==
    <<"follow", "subscription with tiers", "raid", "cheer">>

\* an alerts page when its script has run: the queue is empty, nothing plays
\* and the container has no element; received, queued and played keep what
\* the page has received, pushed on its queue and put in its container
LoadedPage(listeners) ==
    [listeners |-> listeners, alertQueue |-> <<>>, isPlaying |-> FALSE,
     container |-> <<>>, received |-> <<>>, queued |-> <<>>, played |-> <<>>]

\* main.js when it has started: global.isChannelLive is not set, no request
\* is in flight; polls keeps the calls of checkStreamStatus that have ended
\* and notifications the calls of sendDiscordNotification.  credential is
\* the token the file's checkStreamStatus sends
StartedMonitor(credential) ==
    [isChannelLive |-> <<>>, credential |-> credential, inFlight |-> 0,
     polls |-> <<>>, notifications |-> <<>>]

\* what the states of the server's own behaviours hold for the other modules
Untouched ==
    /\ database = NewDatabase
    /\ page = LoadedPage(SecondPageListeners)
    /\ monitor = StartedMonitor("TWITCH_USER_TOKEN")

Init ==
    /\ env \in Environments
    /\ io = "io"
    /\ subscriptions = EmptyBag
    /\ req = NoRequest
    /\ res = NoResponse
    /\ emitted = <<>>
    /\ verdict = "none"
    /\ branch = "idle"
    /\ calls = NoCalls
    /\ Untouched
    /\ store = EmptyStore

\* one delivery to POST /webhook/twitch, handled to its response
Webhook(r) ==
    /\ LET out == Route(r, env.TWITCH_WEBHOOK_SECRET, io)
       IN  /\ req' = r
           /\ res' = [status |-> out.status, body |-> out.body]
           /\ emitted' = out.emits
           /\ verdict' = out.verdict
           /\ branch' = out.branch
    /\ UNCHANGED <<env, io, subscriptions, calls, store, elsewhere>>

\* a delivery arrives while no other is being handled (the state guard comes
\* first, so that TLC builds the request record anew in every evaluation)
Deliver ==
    /\ branch = "idle"
    /\ \E id \in MessageIds, timestamp \in Timestamps, type \in MessageTypes,
          raw \in RawBodies :
          \E signature \in SignaturesFor(id, timestamp, raw) :
             Webhook([headers |-> [id |-> id, timestamp |-> timestamp,
                                   signature |-> signature, type |-> type],
                      raw |-> raw])

\* the response has been written and the request is over
ResponseSent ==
    /\ branch # "idle"
    /\ req' = NoRequest
    /\ res' = NoResponse
    /\ emitted' = <<>>
    /\ verdict' = "none"
    /\ branch' = "idle"
    /\ UNCHANGED <<env, io, subscriptions, calls, store, elsewhere>>

\* one call of registerSubscription, between two deliveries, run to its result
RegisterSubscription ==
    /\ branch = "idle"
    /\ \E type \in HandledTypes, userId \in UserIds,
          first \in CreateOutcomes, second \in CreateOutcomes :
          LET result == registerSubscription(type, userId, env, first, second)
          IN  /\ BagCardinality(subscriptions (+) SetToBag(result.created))
                     <= MaxSubscriptions
              /\ subscriptions' = subscriptions (+) SetToBag(result.created)
    /\ UNCHANGED <<env, io, req, res, emitted, verdict, branch, calls, store, elsewhere>>

Next == Deliver \/ ResponseSent \/ RegisterSubscription

Spec == Init /\ [][Next]_vars

-----------------------------------------------------------------------------
(* verifyTwitchSignature on its own: the inputs are drawn in the initial   *)
(* state and the one action applies the function                           *)

VerifyIds == {"m1", "m11", "undefined", Undefined}

VerifyTimestamps == {"1", "11", Undefined}

VerifyBodies ==
    {[layout |-> l, value |-> v] :
        l \in {"compact", "spaced"},
        v \in {[challenge |-> "abc123"], [challenge |-> "pogchamp"]}}

\* the signatures a sender holding a secret computes for its deliveries
SenderSignatures ==
    {TwitchSignature(k, id, timestamp, raw) :
        k \in Secrets, id \in VerifyIds \ {Undefined},
        timestamp \in VerifyTimestamps \ {Undefined}, raw \in VerifyBodies}

InitVerify ==
    /\ env \in {SetEnv(k) : k \in Secrets}
    /\ io = "io"
    /\ subscriptions = EmptyBag
    /\ calls = NoCalls
    /\ Untouched
    /\ store = EmptyStore
    /\ req \in [headers : [id : VerifyIds, timestamp : VerifyTimestamps,
                           signature : SenderSignatures \cup {Undefined},
                           type : {MESSAGE_TYPE_NOTIFICATION}],
                raw : VerifyBodies]
    /\ res = NoResponse
    /\ emitted = <<>>
    /\ verdict = "pending"
    /\ branch = "verifying"

VerifySignature ==
    /\ verdict = "pending"
    /\ verdict' =
         IF verifyTwitchSignature([headers |-> req.headers,
                                   body |-> JSONParse(req.raw).body],
                                  env.TWITCH_WEBHOOK_SECRET)
           THEN "authentic" ELSE "forged"
    /\ UNCHANGED <<env, io, subscriptions, req, res, emitted, branch, calls, store, elsewhere>>

NextVerify == VerifySignature

SpecVerify == InitVerify /\ [][NextVerify]_vars

-----------------------------------------------------------------------------
(* The asynchronous operations: each is called, waits for the answers of   *)
(* the remote API and of the token database, and completes                 *)

ChannelNames == {"pyxyll"}

RegistrarInvocations ==
    {[op |-> "registerSubscription", type |-> t, arg |-> u] :
        t \in HandledTypes, u \in UserIds}
    \cup {[op |-> "setupFollowSubscription", type |-> "channel.follow", arg |-> u] :
            u \in UserIds \cup {Undefined}}
    \cup {[op |-> o, type |-> Undefined, arg |-> n] :
            o \in {"setupEventSub", "getUserId"}, n \in ChannelNames \cup {Undefined}}
    \cup {[op |-> "getSubscriptions", type |-> Undefined, arg |-> Undefined]}

RefreshOperations == {"refreshTwitchToken", "refreshUserToken"}

EncryptionKeys == {Undefined, "k1"}

\* process.env with the variables of the registrar `e` and the tokens
OperationEnv(e, access, refresh, key) ==
    [TWITCH_WEBHOOK_SECRET |-> e.TWITCH_WEBHOOK_SECRET,
     TWITCH_APP_ACCESS_TOKEN |-> e.TWITCH_APP_ACCESS_TOKEN,
     TWITCH_CLIENT_ID |-> e.TWITCH_CLIENT_ID,
     PUBLIC_URL |-> e.PUBLIC_URL,
     TWITCH_ACCESS_TOKEN |-> access, TWITCH_REFRESH_TOKEN |-> refresh,
     TWITCH_USER_TOKEN |-> access, TWITCH_USER_REFRESH_TOKEN |-> refresh,
     ENCRYPTION_KEY |-> key]

\* the database after the OAuth callbacks have stored a0 and r0
AuthorizedStore(key) ==
    [TWITCH_ACCESS_TOKEN |-> encrypt("a0", key),
     TWITCH_REFRESH_TOKEN |-> encrypt("r0", key),
     TWITCH_USER_TOKEN |-> "a0", TWITCH_USER_REFRESH_TOKEN |-> "r0"]

\* The registrar and the refresh functions share no state, so the process
\* is started either configured for the registrar and not yet authorized,
\* or authorized (tokens in memory, in the database, or in both) and
\* without an app access token.
StartedProcess ==
    /\ \/ /\ env \in {OperationEnv(e, Undefined, Undefined, Undefined) :
                         e \in Environments}
          /\ store = EmptyStore
       \/ \E key \in EncryptionKeys, inMemory \in BOOLEAN, inStore \in BOOLEAN :
             /\ inMemory \/ inStore
             /\ env = OperationEnv([SetEnv("s1") EXCEPT
                                      !.TWITCH_APP_ACCESS_TOKEN = Undefined],
                                   IF inMemory THEN "a0" ELSE Undefined,
                                   IF inMemory THEN "r0" ELSE Undefined, key)
             /\ store = IF inStore THEN AuthorizedStore(key) ELSE EmptyStore
    /\ io = "io"
    /\ subscriptions = EmptyBag
    /\ req = NoRequest
    /\ res = NoResponse
    /\ emitted = <<>>
    /\ verdict = "none"
    /\ branch = "idle"
    /\ Untouched

InitOperations == StartedProcess /\ calls = NoCalls

\* an operation of the registrar is called
Invoke(c) ==
    /\ calls[c].pc = "idle"
    /\ \E i \in RegistrarInvocations :
          calls' = [calls EXCEPT ![c] = CalledRegistrar(i.op, i.type, i.arg, env)]
    /\ UNCHANGED <<env, io, subscriptions, webhookVars, store, elsewhere>>

\* a refresh function is called (timer tick, or GET /api/refresh-token)
Refresh(c) ==
    /\ calls[c].pc = "idle"
    /\ \E op \in RefreshOperations :
          calls' = [calls EXCEPT ![c] = RefreshStarted(op, store, env)]
    /\ UNCHANGED <<env, io, subscriptions, webhookVars, store, elsewhere>>

\* the read of the refresh token from the database settles
ReadResponds(c) ==
    /\ calls[c].pc = "read"
    /\ \E outcome \in DbOutcomes :
          calls' = [calls EXCEPT ![c] = ReadAnswered(calls[c], outcome, store, env)]
    /\ UNCHANGED <<env, io, subscriptions, webhookVars, store, elsewhere>>

\* the identity provider answers the refresh exchange, or the request fails
TokenResponds(c) ==
    /\ calls[c].pc = "token"
    /\ \E outcome \in TokenOutcomes :
          /\ calls' = [calls EXCEPT ![c] = TokenAnswered(calls[c], outcome)]
          /\ env' = EnvAfterToken(calls[c], outcome, env)
    /\ UNCHANGED <<io, subscriptions, webhookVars, store, elsewhere>>

\* a write to the database settles
StoreResponds(c) ==
    /\ calls[c].pc = "store"
    /\ \E outcome \in DbOutcomes :
          /\ calls' = [calls EXCEPT ![c] = StoreAnswered(calls[c], outcome)]
          /\ store' = StoreAfterWrite(calls[c], outcome, store, env)
          /\ env' = EnvAfterStore(calls[c], outcome, env)
    /\ UNCHANGED <<io, subscriptions, webhookVars, elsewhere>>

\* GET helix/users answers, or fails
LookupResponds(c) ==
    /\ calls[c].pc = "lookup"
    /\ \E outcome \in LookupOutcomes :
          calls' = [calls EXCEPT ![c] = LookupAnswered(calls[c], outcome)]
    /\ UNCHANGED <<env, io, subscriptions, webhookVars, store, elsewhere>>

\* GET helix/eventsub/subscriptions answers, or fails
ListResponds(c) ==
    /\ calls[c].pc = "list"
    /\ \E outcome \in ListOutcomes :
          calls' = [calls EXCEPT ![c] = ListAnswered(calls[c], outcome,
                                                     BagToSet(subscriptions))]
    /\ UNCHANGED <<env, io, subscriptions, webhookVars, store, elsewhere>>

\* POST helix/eventsub/subscriptions answers, or fails; when it answers with
\* success the remote API holds one more subscription
CreateResponds(c) ==
    /\ calls[c].pc = "create"
    /\ \E outcome \in CreateOutcomes :
          LET request == calls[c].requests[Len(calls[c].requests)]
          IN  /\ outcome = "created" => BagCardinality(subscriptions) < MaxRegistered
              /\ calls' = [calls EXCEPT ![c] = CreateAnswered(calls[c], outcome)]
              /\ subscriptions' =
                   IF outcome = "created"
                     THEN subscriptions
                          (+) SetToBag({Subscription(request.type, request.version,
                                                     request.condition)})
                   ELSE subscriptions
    /\ UNCHANGED <<env, io, webhookVars, store, elsewhere>>

\* setupEventSub takes the result of the function it awaited
Resume(c) ==
    /\ calls[c].pc = "resume"
    /\ calls' = [calls EXCEPT ![c] = Resumed(calls[c], env)]
    /\ UNCHANGED <<env, io, subscriptions, webhookVars, store, elsewhere>>

\* the caller has taken the result of the operation
Return(c) ==
    /\ calls[c].pc = "done"
    /\ calls' = [calls EXCEPT ![c] = IdleCall]
    /\ UNCHANGED <<env, io, subscriptions, webhookVars, store, elsewhere>>

NextOperations ==
    \E c \in Slots :
        \/ Invoke(c)
        \/ Refresh(c)
        \/ ReadResponds(c)
        \/ TokenResponds(c)
        \/ StoreResponds(c)
        \/ LookupResponds(c)
        \/ ListResponds(c)
        \/ CreateResponds(c)
        \/ Resume(c)
        \/ Return(c)

SpecOperations == InitOperations /\ [][NextOperations]_vars

-----------------------------------------------------------------------------
(* The renewal timer of the process: setInterval(refreshTwitchToken, 3h) is *)
(* the only one; GET /api/refresh-token and callers of refreshUserToken may *)
(* start a refresh at any time, or never                                    *)

\* the interval elapses and the timer calls refreshTwitchToken
Tick(c) ==
    /\ calls[c].pc = "idle"
    /\ calls' = [calls EXCEPT ![c] = RefreshStarted("refreshTwitchToken", store, env)]
    /\ UNCHANGED <<env, io, subscriptions, webhookVars, store, elsewhere>>

\* a pending await of a refresh settles, or its caller takes the result
Settles(c) ==
    ReadResponds(c) \/ TokenResponds(c) \/ StoreResponds(c) \/ Return(c)

NextTimers == \E c \in Slots : Tick(c) \/ Refresh(c) \/ Settles(c)

\* the timer keeps firing and requests settle; nothing obliges anyone to
\* call a refresh function by hand
SpecTimers ==
    /\ InitOperations
    /\ [][NextTimers]_vars
    /\ WF_vars(\E c \in Slots : Tick(c))
    /\ WF_vars(\E c \in Slots : Settles(c))

-----------------------------------------------------------------------------
(* Two refreshes in flight at once: the timer tick and a GET                *)
(* /api/refresh-token, or two callers of refreshUserToken                   *)

Racers == {"timer", "manual"}

InitRaces == StartedProcess /\ calls = [c \in Racers |-> IdleCall]

NextRaces ==
    \E c \in Racers :
        Refresh(c) \/ ReadResponds(c) \/ TokenResponds(c) \/ StoreResponds(c)

SpecRaces == InitRaces /\ [][NextRaces]_vars

-----------------------------------------------------------------------------
(* The SQLite token store on its own: saveToken and getToken called one     *)
(* after the other on a new database; the caller's record keeps every call  *)
(* made, in order                                                           *)

StoreKeys == {"TWITCH_USER_TOKEN", "TWITCH_USER_REFRESH_TOKEN"}

SavedValues == {"a0", "a1"}

InitStore ==
    /\ env = OperationEnv(SetEnv("s1"), Undefined, Undefined, Undefined)
    /\ store = EmptyStore
    /\ io = "io"
    /\ subscriptions = EmptyBag
    /\ req = NoRequest
    /\ res = NoResponse
    /\ emitted = <<>>
    /\ verdict = "none"
    /\ branch = "idle"
    /\ calls = NoCalls
    /\ Untouched

\* saveToken(key, value) is called
SaveToken(c) ==
    /\ calls[c].pc = "idle"
    /\ Len(calls[c].requests) < MaxStoreCalls
    /\ \E key \in StoreKeys, value \in SavedValues :
          calls' = [calls EXCEPT ![c].op = "saveToken", ![c].fn = "saveToken",
                                 ![c].pc = "store", ![c].completion = "pending",
                                 ![c].requests = Append(@, StoreRequest(key, value))]
    /\ UNCHANGED <<env, io, subscriptions, webhookVars, store, elsewhere>>

\* stmt.run calls back: the row is written and the promise resolved, or the
\* promise is rejected
SaveTokenSettles(c) ==
    /\ calls[c].pc = "store"
    /\ calls[c].op = "saveToken"
    /\ \E outcome \in DbOutcomes :
          LET request == calls[c].requests[Len(calls[c].requests)]
          IN  /\ store' = IF outcome = "ok"
                            THEN saveToken(store, request.key, request.value)
                          ELSE store
              /\ calls' = [calls EXCEPT
                     ![c].pc = "idle",
                     ![c].requests = Answered(@, outcome),
                     ![c].completion = IF outcome = "ok" THEN "returned"
                                       ELSE "rejected",
                     ![c].result = [value |-> Undefined]]
    /\ UNCHANGED <<env, io, subscriptions, webhookVars, elsewhere>>

\* getToken(key) is called
GetToken(c) ==
    /\ calls[c].pc = "idle"
    /\ Len(calls[c].requests) < MaxStoreCalls
    /\ \E key \in StoreKeys :
          calls' = [calls EXCEPT ![c].op = "getToken", ![c].fn = "getToken",
                                 ![c].pc = "read", ![c].completion = "pending",
                                 ![c].requests = Append(@, ReadRequest(key))]
    /\ UNCHANGED <<env, io, subscriptions, webhookVars, store, elsewhere>>

\* db.get calls back: the promise is resolved with the value of the row or
\* null, or it is rejected
GetTokenSettles(c) ==
    /\ calls[c].pc = "read"
    /\ calls[c].op = "getToken"
    /\ \E outcome \in DbOutcomes :
          LET request == calls[c].requests[Len(calls[c].requests)]
          IN  calls' = [calls EXCEPT
                  ![c].pc = "idle",
                  ![c].requests = Answered(@, outcome),
                  ![c].completion = IF outcome = "ok" THEN "returned"
                                    ELSE "rejected",
                  ![c].result = [value |-> IF outcome = "ok"
                                             THEN getTokenRow(store, request.key)
                                           ELSE Undefined]]
    /\ UNCHANGED <<env, io, subscriptions, webhookVars, store, elsewhere>>

NextStore ==
    \E c \in Slots :
        SaveToken(c) \/ SaveTokenSettles(c) \/ GetToken(c) \/ GetTokenSettles(c)

SpecStore == InitStore /\ [][NextStore]_vars

-----------------------------------------------------------------------------
(* setupFollowSubscription against a remote API that already holds a        *)
(* channel.follow subscription, in any status                               *)

\* the statuses the remote API reports for a subscription
SubscriptionStatuses ==
    {"enabled", "webhook_callback_verification_pending",
     "webhook_callback_verification_failed", "authorization_revoked"}

\* what the remote API holds when the process starts
HeldAtStart ==
    {EmptyBag}
    \cup {SetToBag({[Subscription("channel.follow", v,
                                  IF v = "1" THEN [broadcaster_user_id |-> u]
                                  ELSE FollowV2Condition(u))
                       EXCEPT !.status = st]}) :
            v \in {"1", "2"}, u \in {"u1", "u2"}, st \in SubscriptionStatuses}

InitFollowSetup ==
    /\ env = OperationEnv(SetEnv("s1"), Undefined, Undefined, Undefined)
    /\ store = EmptyStore
    /\ io = "io"
    /\ subscriptions \in HeldAtStart
    /\ req = NoRequest
    /\ res = NoResponse
    /\ emitted = <<>>
    /\ verdict = "none"
    /\ branch = "idle"
    /\ calls = NoCalls
    /\ Untouched

\* setupFollowSubscription(userId) is called, as the OAuth callback does
FollowSetup(c) ==
    /\ calls[c].pc = "idle"
    /\ \E userId \in UserIds :
          calls' = [calls EXCEPT ![c] =
                      CalledRegistrar("setupFollowSubscription", "channel.follow",
                                      userId, env)]
    /\ UNCHANGED <<env, io, subscriptions, webhookVars, store, elsewhere>>

NextFollowSetup ==
    \E c \in Slots :
        FollowSetup(c) \/ ListResponds(c) \/ CreateResponds(c) \/ Return(c)

SpecFollowSetup == InitFollowSetup /\ [][NextFollowSetup]_vars

-----------------------------------------------------------------------------
(* The promise-based token database: saveToken, getToken, loadAllTokens and *)
(* close called at any time, each caller once.  A connection is             *)
(* "opening" until sqlite3 has called back twice, then "ready" or "failed", *)
(* "closing" while db.close runs and "closed" after it.  What an async       *)
(* function runs between two callbacks of the event loop is one step.       *)

\* the callers of the three operations
Clients == 1..MaxStoreCalls

DbOperations == {"saveToken", "getToken", "loadAllTokens"}

IdleClient ==
    [fn |-> "none", pc |-> "idle", key |-> Undefined, value |-> Undefined,
     found |-> <<>>, promise |-> NoConnection, handle |-> NoConnection,
     status |-> "none", result |-> Undefined]

\* initializeDatabase(): new sqlite3.Database(dbPath, ...) and the promise of
\* its result; the promise is named by the connection it waits for
initializeDatabase(m) ==
    [m EXCEPT !.connections = Append(@, "opening")]

\* ensureDbInitialized() that opens a connection whenever none is initialized
ensureDbInitializedEachTime(m) ==
    IF m.dbInitialized THEN m
    ELSE [initializeDatabase(m) EXCEPT !.dbInitializing = TRUE,
                                       !.dbPromise = Len(m.connections) + 1]

\* ensureDbInitialized() up to its await
ensureDbInitialized(m) ==
    IF m.dbInitialized THEN m
    ELSE IF ~m.dbInitializing
           THEN [initializeDatabase(m) EXCEPT
                    !.dbInitializing = TRUE,
                    !.dbPromise = Len(m.connections) + 1]
         ELSE m

\* the state of the promise initializeDatabase returned for a connection
PromiseState(m, promise) ==
    CASE m.connections[promise] = "opening" -> "pending"
      [] m.connections[promise] = "failed" -> "rejected"
      [] OTHER -> "fulfilled"

\* ensureDbInitialized() after its await: db = await dbPromise;
\* dbInitialized = true
Initialized(m, handle) ==
    [m EXCEPT !.db = handle, !.dbInitialized = TRUE]

\* the operation goes on after `await ensureDbInitialized()`: it runs its
\* statement on db
Statement(client, m) ==
    [client EXCEPT !.pc = "statement", !.handle = m.db,
                   !.status = m.connections[m.db]]

\* the operation's catch block rethrows the rejection of dbPromise
Rethrown(client) ==
    [client EXCEPT !.pc = "done", !.result = "rejected"]

\* saveToken(key, value), getToken(key) or loadAllTokens() is called; the
\* callers are numbered in the order of their calls
Operation(c) ==
    /\ calls[c].pc = "idle"
    /\ \A d \in Clients : d < c => calls[d].pc # "idle"
    /\ \E fn \in DbOperations, key \in {"TWITCH_USER_TOKEN"},
          value \in SavedValues :
          LET m == ensureDbInitialized(database)
              client == [calls[c] EXCEPT
                            !.fn = fn,
                            !.key = IF fn = "loadAllTokens" THEN Undefined
                                    ELSE key,
                            !.value = IF fn = "saveToken" THEN value
                                      ELSE Undefined,
                            !.found = <<database>>,
                            !.promise = IF database.dbInitialized
                                          THEN NoConnection
                                        ELSE m.dbPromise]
          IN  /\ fn # "saveToken" => value = "a0"
              /\ CASE database.dbInitialized ->
                        /\ database' = m
                        /\ calls' = [calls EXCEPT ![c] = Statement(client, m)]
                   [] ~database.dbInitialized
                        /\ PromiseState(m, m.dbPromise) = "fulfilled" ->
                        /\ database' = Initialized(m, m.dbPromise)
                        /\ calls' = [calls EXCEPT ![c] =
                               Statement(client, Initialized(m, m.dbPromise))]
                   [] ~database.dbInitialized
                        /\ PromiseState(m, m.dbPromise) = "rejected" ->
                        /\ database' = m
                        /\ calls' = [calls EXCEPT ![c] = Rethrown(client)]
                   [] OTHER ->
                        /\ database' = m
                        /\ calls' = [calls EXCEPT ![c] =
                                        [client EXCEPT !.pc = "awaiting"]]
    /\ UNCHANGED <<env, io, subscriptions, webhookVars, store, page, monitor>>

\* sqlite3 calls back for a connection that is opening: the table is created
\* and the promise resolved with the connection, or the promise is rejected;
\* every operation that awaits the promise goes on
InitializationSettles ==
    /\ \E h \in DOMAIN database.connections :
          database.connections[h] = "opening"
    /\ \E h \in DOMAIN database.connections, outcome \in {"ready", "failed"} :
          LET waiting == {c \in Clients : /\ calls[c].pc = "awaiting"
                                          /\ calls[c].promise = h}
              opened == [database EXCEPT !.connections[h] = outcome]
              m == IF outcome = "ready" /\ waiting # {}
                     THEN Initialized(opened, h)
                   ELSE opened
          IN  /\ database.connections[h] = "opening"
              /\ database' = m
              /\ calls' = [c \in Clients |->
                              IF c \notin waiting THEN calls[c]
                              ELSE IF outcome = "ready"
                                     THEN Statement(calls[c], m)
                                   ELSE Rethrown(calls[c])]
    /\ UNCHANGED <<env, io, subscriptions, webhookVars, store, page, monitor>>

\* what loadAllTokens assigns to process.env: every row of the table
LoadedEnv(e, rows) ==
    [k \in DOMAIN e |-> IF k \in DOMAIN rows /\ rows[k] # Null THEN rows[k]
                        ELSE e[k]]

\* the statement of an operation calls back: with the result when it ran on
\* an open connection, with an error otherwise or when sqlite3 reports one
StatementSettles(c) ==
    /\ calls[c].pc = "statement"
    /\ \E outcome \in DbOutcomes :
          LET call == calls[c]
          IN  /\ call.status \notin {"ready", "closing"} => outcome = "db_error"
              /\ store' = IF outcome = "ok" /\ call.fn = "saveToken"
                            THEN saveToken(store, call.key, call.value)
                          ELSE store
              /\ env' = IF outcome = "ok" /\ call.fn = "loadAllTokens"
                          THEN LoadedEnv(env, store)
                        ELSE env
              /\ calls' = [calls EXCEPT
                     ![c].pc = "done",
                     ![c].result =
                         IF outcome # "ok" THEN "rejected"
                         ELSE IF call.fn = "getToken"
                                THEN getTokenRow(store, call.key)
                              ELSE "resolved"]
    /\ UNCHANGED <<io, subscriptions, webhookVars, database, page, monitor>>

\* close() is called while db holds an open connection (it returns at once
\* while db is undefined, and rejects for a connection already closed)
Close ==
    /\ database.db # NoConnection
    /\ database.connections[database.db] = "ready"
    /\ database' = [database EXCEPT !.connections[database.db] = "closing"]
    /\ UNCHANGED <<env, io, subscriptions, webhookVars, calls, store, page,
                   monitor>>

\* db.close calls back: without an error dbInitialized becomes false, with
\* one the connection stays open
CloseSettles ==
    /\ \E h \in DOMAIN database.connections :
          database.connections[h] = "closing"
    /\ \E h \in DOMAIN database.connections, outcome \in DbOutcomes :
          /\ database.connections[h] = "closing"
          /\ database' =
                IF outcome = "ok"
                  THEN [database EXCEPT !.connections[h] = "closed",
                                        !.dbInitialized = FALSE]
                ELSE [database EXCEPT !.connections[h] = "ready"]
    /\ UNCHANGED <<env, io, subscriptions, webhookVars, calls, store, page,
                   monitor>>

InitDatabase ==
    /\ env = OperationEnv(SetEnv("s1"), Undefined, Undefined, Undefined)
    /\ store = EmptyStore
    /\ io = "io"
    /\ subscriptions = EmptyBag
    /\ req = NoRequest
    /\ res = NoResponse
    /\ emitted = <<>>
    /\ verdict = "none"
    /\ branch = "idle"
    /\ calls = [c \in Clients |-> IdleClient]
    /\ database = NewDatabase
    /\ page = LoadedPage(SecondPageListeners)
    /\ monitor = StartedMonitor("TWITCH_USER_TOKEN")

NextDatabase ==
    \/ \E c \in Clients : Operation(c) \/ StatementSettles(c)
    \/ InitializationSettles
    \/ Close
    \/ CloseSettles

SpecDatabase == InitDatabase /\ [][NextDatabase]_vars

-----------------------------------------------------------------------------
(* The alerts page: the socket events it receives and the timers of the     *)
(* alert it shows.  A template string is the sequence of its parts.         *)

\* the events the server publishes to the page
PageEvents ==
    {[name |-> "follow", data |-> [username |-> "Cat"]],
     [name |-> "subscription",
      data |-> [username |-> "bob", tier |-> "1000", months |-> "1",
                message |-> "", isGift |-> FALSE]],
     [name |-> "subscription",
      data |-> [username |-> "Cat", tier |-> "2000", months |-> "5",
                message |-> "hi", isGift |-> FALSE]],
     [name |-> "subscription",
      data |-> [username |-> "bob", tier |-> "1000", months |-> "1",
                message |-> "", isGift |-> TRUE]],
     [name |-> "raid", data |-> [username |-> "Cat", viewers |-> 7]],
     [name |-> "cheer",
      data |-> [username |-> "Anonymous", bits |-> 50, message |-> "gg"]]}

\* the event a listener was registered for
ListensTo(listener) ==
    IF listener = "subscription with tiers" THEN "subscription" ELSE listener

\* the tier named in the message of a subscription alert
TierName(tier) ==
    CASE tier = "1000" -> "Tier 1"
      [] tier = "2000" -> "Tier 2"
      [] tier = "3000" -> "Tier 3"
      [] OTHER -> ""

\* the message of the subscription listener with gifts and tiers
SubscriptionMessage(data) ==
    LET message ==
            IF data.isGift THEN <<"Thanks for gifting a sub!">>
            ELSE IF data.months = "1" THEN <<"Thanks for the new sub!">>
            ELSE <<"Thanks for the ", data.months, " month resub!">>
    IN  IF Truthy(data.tier) /\ TierName(data.tier) # ""
          THEN message \o <<" (", TierName(data.tier), ")">>
        ELSE message

\* the alertData a listener builds from the data of its event
AlertData(listener, data) ==
    CASE listener = "follow" ->
           [type |-> "follow", username |-> data.username,
            message |-> <<"Thanks for the follow!">>,
            videoSrc |-> "/assets/follow-animation.webm", duration |-> 5000]
      [] listener = "subscription" ->
           [type |-> "subscription", username |-> data.username,
            message |-> <<"Thanks for the ">>
                          \o (IF data.months = "1" THEN <<"new sub">>
                              ELSE <<data.months, " month resub">>)
                          \o <<"!">>,
            videoSrc |-> "/assets/subscription-animation.webm",
            duration |-> 8000]
      [] listener = "subscription with tiers" ->
           [type |-> "subscription", username |-> data.username,
            message |-> SubscriptionMessage(data),
            videoSrc |-> "/assets/subscription-animation.webm",
            duration |-> 8000]
      [] listener = "raid" ->
           [type |-> "raid", username |-> data.username,
            message |-> <<"Thanks for the raid with ", data.viewers,
                          " viewers!">>,
            videoSrc |-> "/assets/raid-animation.webm", duration |-> 8000]
      [] listener = "cheer" ->
           [type |-> "cheer", username |-> data.username,
            message |-> <<"Thanks for the ", data.bits, " bits!">>,
            videoSrc |-> "/assets/cheer-animation.webm", duration |-> 7000]

\* the element playNextAlert appends to the container, and the two timers it
\* sets for it
AlertElement(alertData) ==
    [alertData |-> alertData, className |-> "alert",
     timers |-> {"show", "hide"}]

\* playNextAlert() that leaves isPlaying set when the queue is empty
playNextAlertStaysPlaying(p) ==
    IF p.alertQueue = <<>> THEN p
    ELSE [p EXCEPT !.isPlaying = TRUE,
                   !.alertQueue = Tail(@),
                   !.container = Append(@, AlertElement(Head(p.alertQueue))),
                   !.played = Append(@, Head(p.alertQueue))]

\* playNextAlert()
playNextAlert(p) ==
    IF p.alertQueue = <<>> THEN [p EXCEPT !.isPlaying = FALSE]
    ELSE [p EXCEPT !.isPlaying = TRUE,
                   !.alertQueue = Tail(@),
                   !.container = Append(@, AlertElement(Head(p.alertQueue))),
                   !.played = Append(@, Head(p.alertQueue))]

\* queueAlert(alertData) that plays at once whatever isPlaying says
queueAlertPlaysAtOnce(p, alertData) ==
    playNextAlert([p EXCEPT !.alertQueue = Append(@, alertData),
                            !.queued = Append(@, alertData)])

\* queueAlert(alertData)
queueAlert(p, alertData) ==
    LET pushed == [p EXCEPT !.alertQueue = Append(@, alertData),
                            !.queued = Append(@, alertData)]
    IN  IF ~pushed.isPlaying THEN playNextAlert(pushed) ELSE pushed

\* the listeners of an event run in the order they were registered
RECURSIVE Emitted(_, _, _)
Emitted(p, listeners, event) ==
    IF listeners = <<>> THEN p
    ELSE Emitted(IF ListensTo(Head(listeners)) = event.name
                   THEN queueAlert(p, AlertData(Head(listeners), event.data))
                 ELSE p,
                 Tail(listeners), event)

\* the sequence without its i-th element
Without(seq, i) ==
    [j \in 1..(Len(seq) - 1) |-> IF j < i THEN seq[j] ELSE seq[j + 1]]

\* the socket delivers an event to the page
Receive ==
    /\ Len(page.received) < MaxEvents
    /\ \E event \in PageEvents :
          page' = Emitted([page EXCEPT !.received = Append(@, event)],
                          page.listeners, event)
    /\ UNCHANGED <<env, io, subscriptions, webhookVars, calls, store, database,
                   monitor>>

\* the timer of 100 ms fires: the element is shown
Show ==
    /\ \E i \in DOMAIN page.container : "show" \in page.container[i].timers
    /\ \E i \in DOMAIN page.container :
          /\ "show" \in page.container[i].timers
          /\ page' = [page EXCEPT !.container[i].className = "alert active",
                                  !.container[i].timers = @ \ {"show"}]
    /\ UNCHANGED <<env, io, subscriptions, webhookVars, calls, store, database,
                   monitor>>

\* the timer of alertData.duration fires, after the one of 100 ms: the
\* element is hidden and the timer of 500 ms set
Hide ==
    /\ \E i \in DOMAIN page.container : page.container[i].timers = {"hide"}
    /\ \E i \in DOMAIN page.container :
          /\ page.container[i].timers = {"hide"}
          /\ page' = [page EXCEPT !.container[i].className = "alert",
                                  !.container[i].timers = {"remove"}]
    /\ UNCHANGED <<env, io, subscriptions, webhookVars, calls, store, database,
                   monitor>>

\* the timer of 500 ms fires: the element is removed and the next alert
\* played
Remove ==
    /\ \E i \in DOMAIN page.container : page.container[i].timers = {"remove"}
    /\ \E i \in DOMAIN page.container :
          /\ page.container[i].timers = {"remove"}
          /\ page' = playNextAlert(
                         [page EXCEPT !.container = Without(@, i)])
    /\ UNCHANGED <<env, io, subscriptions, webhookVars, calls, store, database,
                   monitor>>

InitPage ==
    /\ env = OperationEnv(SetEnv("s1"), Undefined, Undefined, Undefined)
    /\ store = EmptyStore
    /\ io = "io"
    /\ subscriptions = EmptyBag
    /\ req = NoRequest
    /\ res = NoResponse
    /\ emitted = <<>>
    /\ verdict = "none"
    /\ branch = "idle"
    /\ calls = NoCalls
    /\ database = NewDatabase
    /\ page \in {LoadedPage(FirstPageListeners),
                 LoadedPage(SecondPageListeners)}
    /\ monitor = StartedMonitor("TWITCH_USER_TOKEN")

NextPage == Receive \/ Show \/ Hide \/ Remove

SpecPage == InitPage /\ [][NextPage]_vars

\* the page when every timer that is set fires
SpecPageTimers ==
    /\ SpecPage
    /\ WF_vars(Show)
    /\ WF_vars(Hide)
    /\ WF_vars(Remove)

-----------------------------------------------------------------------------
(* The stream monitor: checkStreamStatus called by its interval, each call  *)
(* up to its request and then from the answer on.  A request that takes     *)
(* longer than the interval is still in flight at the next call.            *)

\* what a request to helix/streams comes to: data holds a stream, data is
\* empty, or axios rejects (no answer, an error status, a body without data)
StreamAnswers == {"live", "offline", "failed"}

\* the stream a live answer holds
StreamData == [title |-> "Coding", game_name |-> "Software", viewer_count |-> 7]

\* checkStreamStatus() from the answer on, that records a failed poll as
\* offline
checkStreamStatusOfflineOnFailure(m, answer) ==
    LET isLive == answer = "live"
        notifies == isLive /\ m.isChannelLive # <<TRUE>>
    IN  [m EXCEPT
            !.isChannelLive = <<isLive>>,
            !.notifications = IF notifies THEN Append(@, StreamData) ELSE @,
            !.polls = Append(@, [observed |-> answer, notified |-> notifies])]

\* checkStreamStatus() from the answer on: sendDiscordNotification is called
\* and global.isChannelLive assigned, or the catch block logs the error
checkStreamStatus(m, answer) ==
    LET isLive == answer = "live"
        notifies == isLive /\ m.isChannelLive # <<TRUE>>
    IN  IF answer = "failed"
          THEN [m EXCEPT !.polls = Append(@, [observed |-> answer,
                                              notified |-> FALSE])]
        ELSE [m EXCEPT
                 !.isChannelLive = <<isLive>>,
                 !.notifications = IF notifies THEN Append(@, StreamData)
                                   ELSE @,
                 !.polls = Append(@, [observed |-> answer,
                                      notified |-> notifies])]

\* the interval calls checkStreamStatus: without the credentials it returns,
\* with them it sends its request
Poll ==
    /\ Len(monitor.polls) + monitor.inFlight < MaxPolls
    /\ monitor' =
          IF ~Truthy(env[monitor.credential]) \/ ~Truthy(env.TWITCH_CLIENT_ID)
            THEN [monitor EXCEPT !.polls = Append(@, [observed |-> "skipped",
                                                      notified |-> FALSE])]
          ELSE [monitor EXCEPT !.inFlight = @ + 1]
    /\ UNCHANGED <<env, io, subscriptions, webhookVars, calls, store, database,
                   page>>

\* a request is answered and its call goes on
StreamResponds ==
    /\ monitor.inFlight > 0
    /\ \E answer \in StreamAnswers :
          monitor' = checkStreamStatus([monitor EXCEPT !.inFlight = @ - 1],
                                       answer)
    /\ UNCHANGED <<env, io, subscriptions, webhookVars, calls, store, database,
                   page>>

InitMonitor ==
    /\ env \in {OperationEnv(e, token, Undefined, Undefined) :
                   e \in {SetEnv("s1"),
                          [SetEnv("s1") EXCEPT !.TWITCH_CLIENT_ID = Undefined],
                          [SetEnv("s1") EXCEPT
                              !.TWITCH_APP_ACCESS_TOKEN = Undefined]},
                   token \in {"a0", Undefined}}
    /\ store = EmptyStore
    /\ io = "io"
    /\ subscriptions = EmptyBag
    /\ req = NoRequest
    /\ res = NoResponse
    /\ emitted = <<>>
    /\ verdict = "none"
    /\ branch = "idle"
    /\ calls = NoCalls
    /\ database = NewDatabase
    /\ page = LoadedPage(SecondPageListeners)
    /\ monitor \in {StartedMonitor("TWITCH_USER_TOKEN"),
                    StartedMonitor("TWITCH_APP_ACCESS_TOKEN")}

NextMonitor == Poll \/ StreamResponds

SpecMonitor == InitMonitor /\ [][NextMonitor]_vars

-----------------------------------------------------------------------------
(* Properties *)

Secret == env.TWITCH_WEBHOOK_SECRET

\* the parsed body of the delivery being handled
Body == req.raw.value

Authentic == verdict = "authentic"

\* C1: a delivery whose signature check fails is answered 403 and does
\* nothing else: no emit, no branch of the switch, and the subscriptions,
\* the environment and the Socket.IO reference stay as they were.
C1_ForgedIsRejected ==
    [][(branch = "idle" /\ verdict' = "forged")
         => /\ res'.status = 403
            /\ emitted' = <<>>
            /\ branch' = "rejected"
            /\ UNCHANGED <<subscriptions, env, io>>]_vars

\* a notification carrying a raid event, with a signature that does not
\* verify, has been answered while a subscription exists
C1_Witness ==
    /\ verdict = "forged"
    /\ res.status = 403
    /\ req.headers.type = MESSAGE_TYPE_NOTIFICATION
    /\ "event" \in DOMAIN Body
    /\ req.headers.signature # Undefined
    /\ subscriptions # EmptyBag

\* C2: every authentic notification delivery is answered 204, also when
\* handling it fails internally.
C2_NotificationAlwaysAcknowledged ==
    (Authentic /\ req.headers.type = MESSAGE_TYPE_NOTIFICATION)
        => res.status = 204

\* C3: the signature computed over messageId, timestamp and the raw bytes
\* received is accepted.
C3_RawByteSignatureAccepted ==
    (/\ verdict \in {"authentic", "forged"}
     /\ req.headers.id # Undefined
     /\ req.headers.timestamp # Undefined
     /\ req.headers.signature =
          TwitchSignature(Secret, req.headers.id, req.headers.timestamp, req.raw))
        => Authentic

\* C4: a signature valid for (messageId, timestamp, raw body) is rejected on
\* every delivery that differs from it in the body, the timestamp or the id.
C4_MutationRejected ==
    \A id \in VerifyIds \ {Undefined}, timestamp \in VerifyTimestamps \ {Undefined},
       raw \in VerifyBodies :
       (/\ verdict \in {"authentic", "forged"}
        /\ req.headers.id # Undefined
        /\ req.headers.timestamp # Undefined
        /\ req.headers.signature = TwitchSignature(Secret, id, timestamp, raw)
        /\ <<req.headers.id, req.headers.timestamp, req.raw>> # <<id, timestamp, raw>>)
           => ~Authentic

\* C5: a delivery without message-id, timestamp or signature header is never
\* authentic.
C5_MissingHeaderFailsClosed ==
    (\/ req.headers.id = Undefined
     \/ req.headers.timestamp = Undefined
     \/ req.headers.signature = Undefined)
        => ~Authentic

\* C6 as stated: with the secret unset every delivery is answered 500 before
\* the signature check, with no emit and no branch of the switch.
C6_UnsetSecretAlways500 ==
    (branch # "idle" /\ ~Truthy(Secret))
        => /\ res.status = 500
           /\ verdict = "unchecked"
           /\ emitted = <<>>
           /\ branch = "no_secret"

\* C6 as amended: with the secret unset every delivery whose body the JSON
\* body parser accepts is answered 500 before the signature check, with no
\* emit and no branch of the switch.
C6_UnsetSecret500 ==
    (branch # "idle" /\ ~Truthy(Secret) /\ JSONParse(req.raw).ok)
        => /\ res.status = 500
           /\ verdict = "unchecked"
           /\ emitted = <<>>
           /\ branch = "no_secret"

\* a correctly signed raid notification arrived while the secret is unset
C6_Witness ==
    /\ ~Truthy(Secret)
    /\ branch = "no_secret"
    /\ res.status = 500
    /\ req.headers.type = MESSAGE_TYPE_NOTIFICATION
    /\ "event" \in DOMAIN Body
    /\ req.headers.signature =
         TwitchSignature("s1", ToStr(req.headers.id), ToStr(req.headers.timestamp),
                         req.raw)

\* C7: an authentic verification delivery is answered 200 with exactly the
\* challenge string of its body, emits nothing and changes no state.
C7_ChallengeEchoed ==
    [][(/\ branch = "idle"
        /\ verdict' = "authentic"
        /\ req'.headers.type = MESSAGE_TYPE_VERIFICATION)
         => /\ res'.status = 200
            /\ "challenge" \in DOMAIN req'.raw.value
                 => res'.body = req'.raw.value.challenge
            /\ emitted' = <<>>
            /\ UNCHANGED <<subscriptions, env, io>>]_vars

\* the challenge of a verification delivery has been echoed
C7_Witness ==
    /\ Authentic
    /\ req.headers.type = MESSAGE_TYPE_VERIFICATION
    /\ "challenge" \in DOMAIN Body
    /\ Body.challenge = "pogchamp"
    /\ res = [status |-> 200, body |-> "pogchamp"]

\* the subscriptions a revocation body names: same type, same condition
Matching(body) ==
    {s \in BagToSet(subscriptions) :
        /\ s.type = Prop(body.subscription, "type")
        /\ <<s.condition>> = ObjProp(body.subscription, "condition")}

\* C8: an authentic revocation delivery is answered 204 and leaves the
\* subscription matching its type and condition in status revoked.
C8_RevocationMarksRevoked ==
    (/\ Authentic
     /\ req.headers.type = MESSAGE_TYPE_REVOCATION
     /\ "subscription" \in DOMAIN Body)
        => /\ res.status = 204
           /\ \A s \in Matching(Body) : s.status = "revoked"

\* C9: an authentic delivery whose message type is none of the three known
\* ones, or absent, is answered 204 and emits nothing.
C9_UnknownTypeAcknowledged ==
    (/\ Authentic
     /\ req.headers.type \notin {MESSAGE_TYPE_VERIFICATION, MESSAGE_TYPE_NOTIFICATION,
                                 MESSAGE_TYPE_REVOCATION})
        => /\ res = [status |-> 204, body |-> ""]
           /\ emitted = <<>>
           /\ branch = "unknown"

\* a delivery without message-type header, carrying an event, was acknowledged
C9_Witness ==
    /\ Authentic
    /\ req.headers.type = Undefined
    /\ "event" \in DOMAIN Body
    /\ branch = "unknown"
    /\ res.status = 204

\* C10: an authentic notification of one of the six handled types emits
\* exactly one event and is answered 204; a raid event carries the raider's
\* display name and the viewer count.
C10_ExactlyOneEvent ==
    (/\ Authentic
     /\ req.headers.type = MESSAGE_TYPE_NOTIFICATION
     /\ "subscription" \in DOMAIN Body
     /\ Prop(Body.subscription, "type") \in HandledTypes)
        => /\ Len(emitted) = 1
           /\ res.status = 204
           /\ Body.subscription.type = "channel.raid"
                => /\ emitted[1].name = "raid"
                   /\ "from_broadcaster_user_name" \in DOMAIN Body.event
                        => emitted[1].data.username
                             = Body.event.from_broadcaster_user_name
                   /\ emitted[1].data.viewers = Body.event.viewers


\* C11: an authentic notification whose subscription type is none of the six
\* handled types emits no event at all and is still answered 204.
C11_UnhandledTypeEmitsNothing ==
    (/\ Authentic
     /\ req.headers.type = MESSAGE_TYPE_NOTIFICATION
     /\ "subscription" \in DOMAIN Body
     /\ Prop(Body.subscription, "type") \notin HandledTypes)
        => /\ emitted = <<>>
           /\ res = [status |-> 204, body |-> ""]
           /\ branch = "notification"

\* a channel.update notification carrying an event was acknowledged
C11_Witness ==
    /\ Authentic
    /\ req.headers.type = MESSAGE_TYPE_NOTIFICATION
    /\ "subscription" \in DOMAIN Body
    /\ Prop(Body.subscription, "type") = "channel.update"
    /\ "event" \in DOMAIN Body
    /\ res.status = 204


-----------------------------------------------------------------------------
(* Properties of the asynchronous operations *)

RegistrationFunctions == {"registerSubscription", "setupFollowSubscription"}

\* the function call.fn has been entered and its record is still the one
\* of the call (setupEventSub has not returned over it)
Entered(call) ==
    call.pc # "idle" /\ (call.op = call.fn \/ call.pc # "done")

\* the function call.fn has returned call.result: to setupEventSub, which
\* awaits it, or to the caller of the operation
FnReturned(call) ==
    \/ call.pc = "resume"
    \/ call.pc = "done" /\ call.op = call.fn /\ call.completion = "returned"

\* a registration function has returned
Registered(call) == call.fn \in RegistrationFunctions /\ FnReturned(call)

\* the create requests the function has sent
Creates(call) == SelectSeq(call.requests, LAMBDA r : r.kind = "create")

\* the broadcaster a subscription is about
Target(sub) ==
    IF sub.type = "channel.raid" THEN sub.condition.to_broadcaster_user_id
    ELSE sub.condition.broadcaster_user_id

\* how many enabled subscriptions the remote API holds for a type and target
EnabledFor(type, userId) ==
    BagCardinality([s \in {x \in BagToSet(subscriptions) :
                              /\ x.type = type
                              /\ x.status = "enabled"
                              /\ Target(x) = userId}
                      |-> subscriptions[s]])

\* every request of the function was answered with success
AllSucceeded(call) ==
    \A i \in DOMAIN call.requests : call.requests[i].outcome \in {"ok", "created"}

AlreadyPresent(result) == result.message = "Follow events were already set up"

\* C12: when a registration for a (type, user id) returns success with the
\* remote API answering every request with success, the remote API holds
\* exactly one subscription for that type and user id (a second registration
\* in sequence creates nothing), and the result says already-present exactly
\* when the call sent no create request.
C12_SecondRegistrationCreatesNothing ==
    \A c \in Slots :
        (Registered(calls[c]) /\ calls[c].result.success /\ AllSucceeded(calls[c]))
            => /\ EnabledFor(calls[c].type, calls[c].userId) = 1
               /\ (Creates(calls[c]) = <<>>) <=> AlreadyPresent(calls[c].result)

\* C13: the remote API holds at most one enabled subscription per type and
\* target, whatever calls were made.
C13_OneSubscriptionPerTarget ==
    \A type \in HandledTypes, userId \in UserIds : EnabledFor(type, userId) <= 1

\* C14: a registration function sends a create request only after a list
\* request of the same call was answered with success and showed no
\* subscription of the type for the user id.
C14_CreateOnlyAfterList ==
    \A c \in Slots :
        (calls[c].fn \in RegistrationFunctions /\ Entered(calls[c]))
            => \A i \in DOMAIN calls[c].requests :
                  calls[c].requests[i].kind = "create"
                     => \E j \in 1..(i - 1) :
                           /\ calls[c].requests[j].kind = "list"
                           /\ calls[c].requests[j].outcome = "ok"
                           /\ \A sub \in calls[c].requests[j].data :
                                 ~(sub.type = calls[c].type
                                   /\ Target(sub) = calls[c].userId)

\* C15: a channel.follow registration whose version-1 create request failed
\* has sent exactly one version-2 create request, with broadcaster and
\* moderator set to the user id, when it returns; it reports failure exactly
\* when that request failed too.
C15_FollowFallsBackOnAnyFailure ==
    \A c \in Slots :
        (/\ Registered(calls[c])
         /\ calls[c].type = "channel.follow"
         /\ Creates(calls[c]) # <<>>
         /\ Creates(calls[c])[1].outcome # "created")
            => /\ Len(Creates(calls[c])) = 2
               /\ Creates(calls[c])[2].version = "2"
               /\ Creates(calls[c])[2].condition = FollowV2Condition(calls[c].userId)
               /\ calls[c].result.success <=> Creates(calls[c])[2].outcome = "created"

\* C16: a registerSubscription call for a type other than channel.follow
\* whose create request failed returns failure after that one request, which
\* was a version-1 request.
C16_OtherTypesFailAfterOneRequest ==
    \A c \in Slots :
        (/\ calls[c].fn = "registerSubscription"
         /\ Entered(calls[c])
         /\ calls[c].type # "channel.follow"
         /\ Len(calls[c].requests) > 0
         /\ calls[c].requests[1].outcome \in {"http_error", "no_response"})
            => /\ FnReturned(calls[c])
               /\ ~calls[c].result.success
               /\ Len(calls[c].requests) = 1
               /\ calls[c].requests[1].version = "1"

\* registerSubscription('channel.raid', 'u1') has returned failure after the
\* remote API refused its create request
C16_Witness ==
    \E c \in Slots :
        /\ calls[c].op = "registerSubscription"
        /\ calls[c].type = "channel.raid"
        /\ calls[c].pc = "done"
        /\ Len(calls[c].requests) = 1
        /\ calls[c].requests[1].outcome = "http_error"
        /\ ~calls[c].result.success

ConfigurationAbsent(e) ==
    \E v \in {"TWITCH_APP_ACCESS_TOKEN", "TWITCH_CLIENT_ID",
              "TWITCH_WEBHOOK_SECRET", "PUBLIC_URL"} : ~Truthy(e[v])

\* C17: with a required configuration variable absent, a registration
\* function returns a failure result before any await, having sent no
\* request, and does not throw.
C17_AbsentConfigurationFails ==
    \A c \in Slots :
        (/\ calls[c].fn \in RegistrationFunctions
         /\ Entered(calls[c])
         /\ ConfigurationAbsent(env))
            => /\ FnReturned(calls[c])
               /\ ~calls[c].result.success
               /\ calls[c].requests = <<>>

\* setupFollowSubscription('u1') has returned failure with PUBLIC_URL unset
C17_Witness ==
    \E c \in Slots :
        /\ calls[c].op = "setupFollowSubscription"
        /\ calls[c].userId = "u1"
        /\ ~Truthy(env.PUBLIC_URL)
        /\ calls[c].pc = "done"
        /\ calls[c].completion = "returned"
        /\ calls[c].result.error = "Missing required configuration"

\* C18: no operation ever rejects or throws to its caller: whatever the
\* remote calls answer, it completes with a returned result.
C18_OperationsNeverReject ==
    \A c \in Slots : calls[c].completion # "rejected"

\* an operation has completed with a returned result after a remote call
\* of it failed without a response
C18_Witness ==
    \E c \in Slots :
        /\ calls[c].pc = "done"
        /\ calls[c].completion = "returned"
        /\ calls[c].op \in {"getUserId", "refreshUserToken"}
        /\ calls[c].requests # <<>>
        /\ calls[c].requests[Len(calls[c].requests)].outcome = "no_response"


\* a refresh function has returned after the identity provider issued tokens
Refreshed(call) ==
    call.op \in RefreshOperations /\ call.pc = "done" /\ call.issued # <<>>

\* the database accepted the write of the new access token
AccessWriteAccepted(call) ==
    \E i \in DOMAIN call.requests :
        /\ call.requests[i].kind = "store"
        /\ call.requests[i].key = AccessKey(call.fn)
        /\ call.requests[i].outcome = "ok"

\* C19 as stated: once a refresh that the identity provider answered with
\* success has completed, the access token in process.env and the one in
\* the database both equal the one the provider returned.
C19_RefreshUpdatesCacheAndStore ==
    \A c \in Slots :
        Refreshed(calls[c])
            => /\ env[AccessKey(calls[c].fn)] = calls[c].issued[1].access_token
               /\ Persisted(store, calls[c].fn, AccessKey(calls[c].fn), env)
                    = calls[c].issued[1].access_token

\* C19, amended: the same, when the database accepted the write of the new
\* access token.
C19_RefreshUpdatesCacheAndAcceptedStore ==
    \A c \in Slots :
        (Refreshed(calls[c]) /\ AccessWriteAccepted(calls[c]))
            => /\ env[AccessKey(calls[c].fn)] = calls[c].issued[1].access_token
               /\ Persisted(store, calls[c].fn, AccessKey(calls[c].fn), env)
                    = calls[c].issued[1].access_token

\* refreshTwitchToken, with the tokens encrypted in the database, has
\* replaced a0 by the access token the provider returned
C19_Witness ==
    \E c \in Slots :
        /\ calls[c].op = "refreshTwitchToken"
        /\ Refreshed(calls[c])
        /\ AccessWriteAccepted(calls[c])
        /\ Present(env.ENCRYPTION_KEY)
        /\ calls[c].before[1].env.TWITCH_ACCESS_TOKEN = "a0"
        /\ env.TWITCH_ACCESS_TOKEN = "a1"
        /\ store.TWITCH_ACCESS_TOKEN # calls[c].before[1].store.TWITCH_ACCESS_TOKEN

\* a refresh function has returned without a refresh token to present: the
\* variable, or the row of the database that was read, holds none
NoRefreshValue(call) ==
    /\ call.op \in RefreshOperations
    /\ call.pc = "done"
    /\ ~Present(call.arg)
    /\ \A i \in DOMAIN call.requests :
          call.requests[i].kind = "read" => call.requests[i].outcome = "ok"

\* C20: a refresh without a refresh value sends no token request, leaves
\* process.env and the database as they were, and returns a result that
\* differs from the result of a failed refresh.
C20_NothingToRefreshIsDistinct ==
    \A c \in Slots :
        NoRefreshValue(calls[c])
            => /\ \A i \in DOMAIN calls[c].requests :
                     calls[c].requests[i].kind # "token"
               /\ env = calls[c].before[1].env
               /\ store = calls[c].before[1].store
               /\ calls[c].completion = "returned"
               /\ calls[c].result # RefreshFailed

\* the token request of a refresh function failed (no response, an error
\* status, or a response without data) and the function has returned
FailedAtProvider(call) ==
    /\ call.op \in RefreshOperations
    /\ call.pc = "done"
    /\ \E i \in DOMAIN call.requests :
          /\ call.requests[i].kind = "token"
          /\ call.requests[i].outcome \in TokenFailures

\* C21: a refresh whose token request failed leaves process.env (access and
\* refresh token) and the database as they were when it was called; the
\* access token in process.env differs from the one at the call only when
\* the identity provider issued a new one.
C21_FailedRefreshChangesNothing ==
    \A c \in Slots :
        /\ FailedAtProvider(calls[c])
              => /\ env = calls[c].before[1].env
                 /\ store = calls[c].before[1].store
                 /\ calls[c].result = RefreshFailed
        /\ (/\ calls[c].op \in RefreshOperations
            /\ env[AccessKey(calls[c].op)]
                 # calls[c].before[1].env[AccessKey(calls[c].op)])
              => /\ calls[c].issued # <<>>
                 /\ env[AccessKey(calls[c].op)] = calls[c].issued[1].access_token

\* a refresh of a0 got an error status from the identity provider and has
\* returned, with a0 and r0 still in memory
C21_Witness ==
    \E c \in Slots :
        /\ FailedAtProvider(calls[c])
        /\ calls[c].requests[Len(calls[c].requests)].outcome = "http_error"
        /\ env[AccessKey(calls[c].op)] = "a0"
        /\ env[RefreshKey(calls[c].op)] = "r0"

\* the identity provider refused the refresh token of a refresh function,
\* and the function has returned
RefusedByProvider(call) ==
    /\ call.op \in RefreshOperations
    /\ call.pc = "done"
    /\ \E i \in DOMAIN call.requests :
          /\ call.requests[i].kind = "token"
          /\ call.requests[i].outcome = "invalid_grant"

\* C22: when the identity provider refuses the refresh token as invalid or
\* expired, the refresh function returns to its caller a result that
\* differs from the one for a missing refresh token and from the one for a
\* request that failed for another reason.
C22_AuthorizationFailureReported ==
    \A c \in Slots :
        RefusedByProvider(calls[c])
            => /\ calls[c].completion = "returned"
               /\ calls[c].result # NothingToRefresh
               /\ calls[c].result # RefreshFailed

\* the credential tiers and the function that renews each: the app token by
\* client-credentials exchange, the user and chat tokens by refresh
Tiers == {"app", "user", "chat"}

RenewalOf ==
    [app |-> "getAppAccessToken", user |-> "refreshUserToken",
     chat |-> "refreshTwitchToken"]

\* a renewal of the tier is under way
Renewing(tier) ==
    \E c \in Slots : calls[c].pc # "idle" /\ calls[c].op = RenewalOf[tier]

\* C23: for each of the three tiers, a renewal is attempted again and again
\* for as long as the process runs.
C23_EveryTierRenewedForever ==
    \A tier \in Tiers : []<>Renewing(tier)

\* both racers have run the same refresh function to its end, the identity
\* provider answered each with tokens of its own, and the database accepted
\* every write
BothRefreshed(op) ==
    /\ \A c \in Racers :
          /\ calls[c].op = op
          /\ calls[c].pc = "done"
          /\ calls[c].issued # <<>>
          /\ Present(calls[c].issued[1].refresh_token)
          /\ \A i \in DOMAIN calls[c].requests :
                calls[c].requests[i].outcome = "ok"
                \/ calls[c].requests[i].kind = "token"
    /\ calls["timer"].issued # calls["manual"].issued

\* C24: once two refreshes of the same tier that both succeeded have
\* completed, the access token in process.env equals the one in the
\* database, and the access and refresh token in the database come from the
\* same response of the identity provider.
C24_RacingRefreshesConsistent ==
    \A op \in RefreshOperations :
        BothRefreshed(op)
            => /\ env[AccessKey(op)] = Persisted(store, op, AccessKey(op), env)
               /\ \E c \in Racers :
                     /\ Persisted(store, op, AccessKey(op), env)
                          = calls[c].issued[1].access_token
                     /\ Persisted(store, op, RefreshKey(op), env)
                          = calls[c].issued[1].refresh_token

\* the database failed to answer the read of the refresh token
ReadFailed(call) ==
    /\ call.op \in RefreshOperations
    /\ call.requests # <<>>
    /\ call.requests[1].kind = "read"
    /\ call.requests[1].outcome = "db_error"

\* the database refused a write of the refresh function
WriteFailed(call) ==
    \E i \in DOMAIN call.requests :
        call.requests[i].kind = "store" /\ call.requests[i].outcome = "db_error"

\* C25: when a write to the database fails during a refresh, process.env
\* still gets the newly issued access token and the function returns it;
\* when the read of the refresh token fails, the refresh presents the
\* refresh token held in process.env.
C25_StoreFailureKeepsCacheAuthoritative ==
    \A c \in Slots :
        /\ (Refreshed(calls[c]) /\ WriteFailed(calls[c]))
              => /\ env[AccessKey(calls[c].op)] = calls[c].issued[1].access_token
                 /\ calls[c].completion = "returned"
                 /\ calls[c].result = [value |-> calls[c].issued[1].access_token]
        /\ (/\ ReadFailed(calls[c])
            /\ Present(calls[c].before[1].env[RefreshKey(calls[c].op)]))
              => /\ Len(calls[c].requests) >= 2
                 /\ calls[c].requests[2]
                      \in {[TokenRequest(calls[c].before[1].env[RefreshKey(calls[c].op)])
                               EXCEPT !.outcome = o] :
                             o \in TokenOutcomes \cup {"pending"}}

\* A line on the console is the sequence of the texts it is made of.
\* console.log(`Registering subscription for ${type}:`,
\*             JSON.stringify(subscriptionData))
RegisteringLine(request, e) ==
    <<"Registering subscription for ", request.type, ": ",
      "{\"type\":\"", request.type, "\",\"version\":\"", request.version,
      "\",\"condition\":", JSONStringify(request.condition),
      ",\"transport\":{\"method\":\"webhook\",\"callback\":\"",
      ToStr(e.PUBLIC_URL) \o "/webhook/twitch",
      "\",\"secret\":\"", ToStr(e.TWITCH_WEBHOOK_SECRET), "\"}}">>

\* the lines registerSubscription writes for one of its create requests
LinesFor(request, e) ==
    IF request.kind # "create" THEN {}
    ELSE IF request.version = "1"
      THEN {RegisteringLine(request, e)}
           \cup (CASE request.outcome = "pending" -> {}
                   [] request.outcome = "created"
                        -> {<<"Successfully registered ", request.type,
                              " subscription">>}
                   [] OTHER
                        -> {<<"Error registering ", request.type,
                              " subscription:", request.outcome>>})
    ELSE {<<"Trying channel.follow with version 2">>}
         \cup (IF request.outcome = "created"
                 THEN {<<"Successfully registered channel.follow v2 subscription">>}
               ELSE {})

\* what a running registerSubscription has written to the console
ConsoleLines(call, e) ==
    IF call.fn # "registerSubscription" THEN {}
    ELSE UNION {LinesFor(call.requests[i], e) : i \in DOMAIN call.requests}

\* the secrets the process keeps: the webhook secret, the app token, and the
\* access and refresh tokens in process.env and in the database
StoredSecrets(e, st) ==
    {v \in {e.TWITCH_WEBHOOK_SECRET, e.TWITCH_APP_ACCESS_TOKEN}
            \cup {e[k] : k \in TokenKeys} \cup {st[k] : k \in TokenKeys} :
        Present(v)}

\* C26: no line on the console contains one of the stored secrets in full.
C26_NoSecretOnConsole ==
    \A c \in Slots :
        \A line \in ConsoleLines(calls[c], env) :
            \A i \in DOMAIN line : line[i] \notin StoredSecrets(env, store)

\* the positions in the log of the saveToken calls on key that completed
CompletedSaves(log, key) ==
    {i \in DOMAIN log : /\ log[i].kind = "store"
                        /\ log[i].key = key
                        /\ log[i].outcome = "ok"}

\* the value of the most recently completed saveToken(key, v), null when
\* there is none
LastSaved(log, key) ==
    IF CompletedSaves(log, key) = {} THEN Null
    ELSE log[CHOOSE i \in CompletedSaves(log, key) :
                \A j \in CompletedSaves(log, key) : j <= i].value

\* C27: after any sequence of saveToken calls every key holds the value of
\* the most recently completed saveToken on it and nothing when there was
\* none (so a saveToken changes no other key), and a getToken that completes
\* returns that value, or null.
C27_LastWriteWinsPerKey ==
    \A c \in Slots :
        calls[c].op \in {"saveToken", "getToken"}
            => LET log == calls[c].requests
                   last == log[Len(log)]
               IN  /\ \A key \in TokenKeys : store[key] = LastSaved(log, key)
                   /\ (last.kind = "read" /\ last.outcome = "ok")
                         => calls[c].result = [value |-> LastSaved(log, last.key)]

\* a key was saved twice with different values, and a getToken after the
\* second save has returned
C27_Witness ==
    \E c \in Slots :
        /\ calls[c].op = "getToken"
        /\ calls[c].pc = "idle"
        /\ Len(calls[c].requests) = 3
        /\ calls[c].requests[3].outcome = "ok"
        /\ CompletedSaves(calls[c].requests, calls[c].requests[3].key) = {1, 2}
        /\ calls[c].requests[1].value # calls[c].requests[2].value
        /\ store[calls[c].requests[3].key] = calls[c].requests[2].value

\* an authentic notification of the type, carrying an event, has been handled
Notified(type) ==
    /\ Authentic
    /\ req.headers.type = MESSAGE_TYPE_NOTIFICATION
    /\ "subscription" \in DOMAIN Body
    /\ Prop(Body.subscription, "type") = type
    /\ "event" \in DOMAIN Body

\* C28: the event emitted for a channel.subscribe notification carries the
\* tier label for the tier code of the notification ('Tier 1' for 1000,
\* 'Tier 2' for 2000, 'Tier 3' for 3000), month count 1, and isGift false.
C28_SubscribeCarriesTierLabel ==
    (Notified("channel.subscribe") /\ Len(emitted) = 1)
        => /\ emitted[1].name = "subscription"
           /\ Prop(emitted[1].data, "tier")
                = (CASE Prop(Body.event, "tier") = "1000" -> "Tier 1"
                     [] Prop(Body.event, "tier") = "2000" -> "Tier 2"
                     [] Prop(Body.event, "tier") = "3000" -> "Tier 3"
                     [] OTHER -> Undefined)
           /\ emitted[1].data.months = "1"
           /\ emitted[1].data.isGift = FALSE

\* C29: the event emitted for a channel.subscription.gift or channel.cheer
\* notification names 'Anonymous' when is_anonymous is set, whatever names
\* the notification carries, and the display name or else the login when it
\* is not; for a gift the month count is 1 and isGift is true.
C29_AnonymousActor ==
    \A type \in {"channel.subscription.gift", "channel.cheer"} :
        Notified(type)
            => /\ Len(emitted) = 1
               /\ emitted[1].data.username
                    = (IF "is_anonymous" \in DOMAIN Body.event
                          /\ Body.event.is_anonymous
                         THEN "Anonymous"
                       ELSE IF "user_name" \in DOMAIN Body.event
                         THEN Body.event.user_name
                       ELSE Body.event.user_login)
               /\ type = "channel.subscription.gift"
                    => /\ emitted[1].name = "subscription"
                       /\ emitted[1].data.months = "1"
                       /\ emitted[1].data.isGift = TRUE
               /\ type = "channel.cheer" => emitted[1].name = "cheer"

\* an anonymous gift that carries the names of the giver was announced as
\* given by 'Anonymous'
C29_Witness ==
    /\ Notified("channel.subscription.gift")
    /\ Body.event.is_anonymous
    /\ "user_name" \in DOMAIN Body.event
    /\ Len(emitted) = 1
    /\ emitted[1].data.username = "Anonymous"
    /\ emitted[1].data.isGift = TRUE

C31_DisplayNameBeforeLogin ==
    \A type \in HandledTypes :
        (/\ Notified(type)
         /\ ~("is_anonymous" \in DOMAIN Body.event /\ Body.event.is_anonymous))
            => LET display == IF type = "channel.raid"
                                THEN "from_broadcaster_user_name" ELSE "user_name"
                   login == IF type = "channel.raid"
                              THEN "from_broadcaster_user_login" ELSE "user_login"
               IN  /\ Len(emitted) = 1
                   /\ emitted[1].data.username
                        = (IF display \in DOMAIN Body.event
                             THEN Body.event[display] ELSE Body.event[login])

\* a follow notification that carries both names was announced under the
\* display name
C31_Witness ==
    /\ Notified("channel.follow")
    /\ "user_name" \in DOMAIN Body.event
    /\ "user_login" \in DOMAIN Body.event
    /\ Body.event.user_name # Body.event.user_login
    /\ Len(emitted) = 1
    /\ emitted[1].data.username = Body.event.user_name

\* the enabled channel.follow subscriptions for the broadcaster in an
\* answered list request
ListedEnabled(request, userId) ==
    {sub \in request.data : /\ sub.type = "channel.follow"
                            /\ sub.condition.broadcaster_user_id = userId
                            /\ sub.status = "enabled"}

\* C32: setupFollowSubscription returns 'already set up' only when the list
\* it received holds an enabled channel.follow subscription for the
\* broadcaster; when the list holds none, it goes on to send a create
\* request.
C32_AlreadySetUpOnlyWhenEnabled ==
    \A c \in Slots :
        (/\ calls[c].op = "setupFollowSubscription"
         /\ calls[c].requests # <<>>
         /\ calls[c].requests[1].outcome = "ok")
            => IF ListedEnabled(calls[c].requests[1], calls[c].userId) # {}
                 THEN calls[c].pc = "done" /\ AlreadyPresent(calls[c].result)
               ELSE /\ Len(calls[c].requests) >= 2
                    /\ calls[c].requests[2].kind = "create"
                    /\ calls[c].pc = "done" => ~AlreadyPresent(calls[c].result)

\* the identity provider has issued the refresh token r to a call of the
\* function op
IssuedTo(call, op, r) ==
    /\ call.op = op
    /\ call.issued # <<>>
    /\ call.issued[1].refresh_token = r

\* C33: a refresh that is called when process.env already holds the refresh
\* token issued to an earlier refresh of the same function presents that
\* refresh token to the identity provider, and no superseded one.
C33_LatestRefreshValuePresented ==
    \A c \in Racers, d \in Racers, op \in RefreshOperations :
        (/\ c # d
         /\ calls[c].op = op
         /\ Present(calls[c].before[1].env[RefreshKey(op)])
         /\ IssuedTo(calls[d], op, calls[c].before[1].env[RefreshKey(op)]))
            => /\ calls[c].pc \notin {"read", "done"}
                    => \E i \in DOMAIN calls[c].requests :
                          calls[c].requests[i].kind = "token"
               /\ \A i \in DOMAIN calls[c].requests :
                     calls[c].requests[i].kind = "token"
                        => calls[c].requests[i].refresh_token
                             = calls[d].issued[1].refresh_token

\* what a completed refresh has done to the refresh token of its tier: left
\* it as it was at the call when the identity provider issued none, replaced
\* it in process.env and in the database when it issued one
RefreshValueFollowsResponse(call) ==
    LET key == RefreshKey(call.op)
        issued == call.issued[1].refresh_token
    IN  IF Present(issued)
          THEN /\ env[key] = issued
               /\ Persisted(store, call.op, key, env) = issued
        ELSE /\ env[key] = call.before[1].env[key]
             /\ store[key] = call.before[1].store[key]

-----------------------------------------------------------------------------
(* Properties of the promise-based token database *)

\* the operation was called
Called(call) == call.pc # "idle"

\* the operation has run its statement
Ran(call) == call.status # "none"

\* the operation was called before the database was initialised for the
\* first time: no connection had been opened, or one was still opening
CalledBeforeInitialised(call) ==
    /\ Called(call)
    /\ ~call.found[1].dbInitialized
    /\ \A h \in DOMAIN call.found[1].connections :
          call.found[1].connections[h] = "opening"

\* the operation was called when the only connection had been closed, or
\* had failed to open
CalledAfterCloseOrFailure(call) ==
    /\ Called(call)
    /\ ~call.found[1].dbInitialized
    /\ call.found[1].connections # <<>>
    /\ \A h \in DOMAIN call.found[1].connections :
          call.found[1].connections[h] \in {"closed", "failed"}

\* C35: the operations called before the database is initialised make one
\* call of initializeDatabase between them; each waits until that connection
\* is ready, and then runs its statement on that one connection, open and
\* with its table, never on an undefined db.
C35_OneInitialisationForConcurrentCalls ==
    \A c \in Clients :
        CalledBeforeInitialised(calls[c])
            => /\ Len(database.connections) = 1
               /\ calls[c].promise = 1
               /\ calls[c].pc = "awaiting"
                     => database.connections[1] = "opening"
               /\ Ran(calls[c])
                     => /\ calls[c].handle = 1
                        /\ calls[c].status = "ready"
               /\ (calls[c].pc = "done" /\ ~Ran(calls[c]))
                     => database.connections[1] = "failed"

\* two operations called before the database was initialised have run their
\* statements on the one connection, and one of them has resolved
C35_Witness ==
    \E c \in Clients, d \in Clients :
        /\ c # d
        /\ CalledBeforeInitialised(calls[c])
        /\ CalledBeforeInitialised(calls[d])
        /\ calls[c].fn = "saveToken"
        /\ calls[d].fn = "loadAllTokens"
        /\ Ran(calls[c]) /\ calls[c].handle = 1
        /\ Ran(calls[d]) /\ calls[d].handle = 1
        /\ calls[c].pc = "done" /\ calls[c].result = "resolved"
        /\ Len(database.connections) = 1

\* C36: an operation called after close() has completed, or after the
\* initialisation has failed, opens the database again and runs its
\* statement on an open connection.
C36_ReopensAfterCloseOrFailure ==
    \A c \in Clients :
        CalledAfterCloseOrFailure(calls[c])
            => /\ calls[c].promise # NoConnection
               /\ calls[c].promise > Len(calls[c].found[1].connections)
               /\ Ran(calls[c]) => calls[c].status = "ready"

-----------------------------------------------------------------------------
(* Properties of the alerts page *)

\* the alerts pushed on the queue are those played, in their order, and then
\* those still in the queue
FirstInFirstOut == page.queued = page.played \o page.alertQueue

\* C37: the container never holds more than one alert; the alerts are played
\* in the order they were queued; isPlaying is false only while the
\* container and the queue are empty.
C37_OneAlertAtATimeInOrder ==
    /\ Len(page.container) <= 1
    /\ FirstInFirstOut
    /\ ~page.isPlaying => (page.container = <<>> /\ page.alertQueue = <<>>)

\* an alert is shown that was queued while another one was shown, and a
\* later one waits in the queue
C37_Witness ==
    /\ Len(page.played) = 2
    /\ Len(page.container) = 1
    /\ page.container[1].alertData = page.queued[2]
    /\ page.container[1].className = "alert active"
    /\ Len(page.alertQueue) = 1
    /\ page.isPlaying

\* C38: every event the page has received has pushed one alert on the queue.
C38_OneAlertForEachEvent == Len(page.queued) = Len(page.received)

\* nothing is queued or shown, nothing plays, and all that was queued has
\* been played
Drained ==
    /\ page.alertQueue = <<>>
    /\ page.container = <<>>
    /\ ~page.isPlaying
    /\ page.played = page.queued

\* C39: while the timers fire, whenever an alert is queued or shown the page
\* comes to a state where every queued alert has been shown and removed,
\* the queue is empty and isPlaying is false.
C39_QueueDrains == page.isPlaying ~> Drained

\* three alerts were queued, shown and removed, and the page is at rest
C39_Witness ==
    /\ Drained
    /\ Len(page.played) >= 2
    /\ Len(page.received) >= 2

-----------------------------------------------------------------------------
(* Properties of the stream monitor *)

\* the status on record after the first n polls that have ended: that of the
\* last one that was answered
RECURSIVE RecordedAfter(_, _)
RecordedAfter(polls, n) ==
    IF n = 0 THEN <<>>
    ELSE IF polls[n].observed \in {"live", "offline"}
           THEN <<polls[n].observed = "live">>
         ELSE RecordedAfter(polls, n - 1)

\* C40: a poll calls sendDiscordNotification exactly when it observes the
\* channel live and the status on record before it was not live; a poll that
\* fails, or is skipped, notifies nobody and leaves the record as it was.
C40_NotifiesOnGoingLive ==
    /\ \A i \in DOMAIN monitor.polls :
          monitor.polls[i].notified
              <=> /\ monitor.polls[i].observed = "live"
                  /\ RecordedAfter(monitor.polls, i - 1) # <<TRUE>>
    /\ Len(monitor.notifications)
          = Cardinality({i \in DOMAIN monitor.polls : monitor.polls[i].notified})
    /\ monitor.isChannelLive
          = RecordedAfter(monitor.polls, Len(monitor.polls))

\* the channel was seen live and announced, then a poll failed, then the
\* channel was seen live again and not announced
C40_Witness ==
    /\ Len(monitor.polls) >= 3
    /\ monitor.polls[1].observed = "live" /\ monitor.polls[1].notified
    /\ monitor.polls[2].observed = "failed"
    /\ monitor.polls[3].observed = "live" /\ ~monitor.polls[3].notified
    /\ Len(monitor.notifications) = 1
    /\ monitor.isChannelLive = <<TRUE>>

====
